---------------------------- MODULE Spec2Model ----------------------------
(***************************************************************************)
(* Model of the hang messaging application: the socket.io connection       *)
(* registry and real-time send path of the server entry file               *)
(* (src/unnamed/part_001), the REST message and contact handlers           *)
(* (src/backend/controllers/authController.js, contactsController.js), and *)
(* the client's socketService (src/unnamed/part_007) with the socket       *)
(* effect and sendMessage of MessagesContext (src/unnamed/part_003).       *)
(*                                                                         *)
(* User ids, contents and nicknames are strings; Undefined stands for the  *)
(* JavaScript value undefined (and SQL NULL), which is falsy.              *)
(***************************************************************************)
EXTENDS Integers, Sequences, FiniteSets, TLC

Undefined == "<undefined>"

\* The rows of the users table.  No handler of the repository deletes a user.
Users == {"1", "2"}

\* An id that names no row of the users table.
NoUser == "9"

\* users.phone_number is nullable (register stores null when none is given).
PhoneNumber == [u \in Users |-> IF u = "1" THEN "+33611111111" ELSE Undefined]

Username == [u \in Users |-> IF u = "1" THEN "alice" ELSE "bob"]

\* The socket.io connections (socket objects) the server may see.
Conns == {"s1", "s2"}

\* The keys userSockets and the rooms can be indexed by: whatever the
\* authenticate handler reads out of a verified token.
Keys == Users \cup {Undefined}

JWT_SECRET == "your-secret-key"

\* JavaScript truthiness of the values the model uses.
Truthy(x) == x # Undefined /\ x # ""

\* obj.f in JavaScript: undefined when the property is absent.
Field(obj, f) == IF f \in DOMAIN obj THEN obj[f] ELSE Undefined

(***************************************************************************)
(* Tokens                                                                  *)
(***************************************************************************)
jwtSign(payload, secret) == [sig |-> secret, expired |-> FALSE, payload |-> payload]

\* login / register: jwt.sign({ id, username }, JWT_SECRET, { expiresIn: '1h' })
LoginToken(u) == jwtSign([id |-> u, username |-> Username[u]], JWT_SECRET)

\* A token signed with the same secret by another issuer, whose payload names
\* the user in a userId property.
ForeignToken(u) == jwtSign([userId |-> u], JWT_SECRET)

ExpiredToken == [LoginToken("1") EXCEPT !.expired = TRUE]

ForgedToken == jwtSign([id |-> "1", username |-> "alice", userId |-> "1"], "guess")

Tokens ==
    {LoginToken(u) : u \in Users} \cup {ForeignToken(u) : u \in Users}
        \cup {ExpiredToken, ForgedToken}

\* jwt.verify(token, secret) returns the payload or throws.
jwtVerifies(token, secret) == token.sig = secret /\ ~token.expired

\* The user a token speaks for (the id the issuer put in it).
TokenOwner(token) ==
    IF Truthy(Field(token.payload, "id")) THEN Field(token.payload, "id")
    ELSE Field(token.payload, "userId")

\* authenticate handler: const userId = decoded.userId
DecodedUserId(decoded) == Field(decoded, "userId")

\* String(x), as a template literal renders it
StringOf(x) == IF x = Undefined THEN "undefined" ELSE x

\* `user:${userId}`: the private room of a user
RoomName(userId) == <<"user:", StringOf(userId)>>

(***************************************************************************)
(* State                                                                   *)
(***************************************************************************)
VARIABLES
    status,        \* per connection: "idle" (not yet connected), "open", "closed"
    socketUserId,  \* socket.userId
    userSockets,   \* the Map userId -> Set of sockets (a function on its keys)
    rooms,         \* per connection: the rooms it has joined
    identity,      \* per connection: the owner of the latest token it verified with
    log,           \* the messages table, in insertion order
    lastID,        \* the AUTOINCREMENT sequence of the messages table
    pendingRT,     \* the INSERTs the send_message handler has issued and not yet seen return
    pendingRest,   \* the INSERTs POST /messages has issued and not yet seen return
    offline,       \* the ids of the messages saved while their receiver had no live connection
    contacts,      \* the contacts table
    contactSeq,    \* the AUTOINCREMENT sequence of the contacts table
    tasks,         \* the REST reads in progress, each at its next database call
    out,           \* what the step just taken emitted or answered, with its request
    client         \* the client: socketService's socket, flags, pendingMessages and sendMessage
                   \* calls, and the message list of MessagesContext

connVars == <<status, socketUserId, userSockets, rooms, identity>>

storeVars == <<log, lastID, offline>>

dirVars == <<contacts, contactSeq, tasks>>

serverVars == <<connVars, storeVars, pendingRT, pendingRest, dirVars, out>>

vars == <<serverVars, client>>

\* The output of a step that emits nothing.
Silent == [kind |-> "none"]

\* Most REST reads in progress at once.
MaxTasks == 2

TaskIds == 1..MaxTasks

\* A free slot of tasks.
Idle == [pc |-> "idle"]

\* Most sendMessage calls the client makes.
MaxCalls == 2

CallIds == 1..MaxCalls

\* A sendMessage call that has not been made.
NoCall == [pc |-> "none", result |-> "pending", timer |-> "none", acked |-> FALSE,
           connected |-> FALSE, ctx |-> "none"]

\* let socket = null; isConnected = false; isAuthenticated = false;
\* const pendingMessages = new Set(); in MessagesContext: messages = {},
\* socketInitialized = false.  listening: the handlers of initSocket are on the
\* socket; transport: the state of the socket.io connection; authSent:
\* authenticate was emitted on it.
ClientInit ==
    [socket |-> FALSE, listening |-> FALSE, transport |-> "closed",
     initialized |-> FALSE, authSent |-> FALSE,
     isConnected |-> FALSE, isAuthenticated |-> FALSE, pendingMessages |-> {},
     calls |-> [c \in CallIds |-> NoCall], messages |-> <<>>]

Init ==
    /\ client = ClientInit
    /\ status = [h \in Conns |-> "idle"]
    /\ socketUserId = [h \in Conns |-> Undefined]
    /\ userSockets = <<>>
    /\ rooms = [h \in Conns |-> {}]
    /\ identity = [h \in Conns |-> Undefined]
    /\ log = <<>>
    /\ lastID = 0
    /\ pendingRT = {}
    /\ pendingRest = {}
    /\ offline = {}
    /\ contacts = {}
    /\ contactSeq = 0
    /\ tasks = [t \in TaskIds |-> Idle]
    /\ out = Silent

(***************************************************************************)
(* Connection registry                                                     *)
(***************************************************************************)
\* Map.has on userSockets
Has(map, k) == k \in DOMAIN map

\* userSockets after `if (!has(k)) set(k, new Set()); get(k).add(h)`
MapAdd(map, k, h) ==
    [x \in DOMAIN map \cup {k} |-> IF x = k
                                    THEN (IF Has(map, k) THEN map[k] ELSE {}) \cup {h}
                                    ELSE map[x]]

\* userSockets after the disconnect handler's delete of h under key k
MapRemove(map, k, h) ==
    IF ~Has(map, k) THEN map
    ELSE IF map[k] \ {h} = {} THEN [x \in DOMAIN map \ {k} |-> map[x]]
    ELSE [map EXCEPT ![k] = map[k] \ {h}]

\* socket.emit('authenticated') / socket.emit('auth_error', ...)
AuthEvent(h, event) == [kind |-> event, conn |-> h]

\* io.on('connection')
Connect(h) ==
    /\ status[h] = "idle"
    /\ status' = [status EXCEPT ![h] = "open"]
    /\ out' = Silent
    /\ UNCHANGED <<socketUserId, userSockets, rooms, identity>>
    /\ UNCHANGED <<client, storeVars, pendingRT, pendingRest, dirVars>>

\* socket.on('authenticate') of a server that drops a connection whose
\* token it refuses
Authenticate_ClosesOnFailure(h, token) ==
    /\ status[h] = "open"
    /\ IF jwtVerifies(token, JWT_SECRET)
       THEN LET userId == DecodedUserId(token.payload) IN
            /\ identity' = [identity EXCEPT ![h] = TokenOwner(token)]
            /\ userSockets' = MapAdd(userSockets, userId, h)
            /\ socketUserId' = [socketUserId EXCEPT ![h] = userId]
            /\ rooms' = [rooms EXCEPT ![h] = rooms[h] \cup {RoomName(userId)}]
            /\ out' = AuthEvent(h, "authenticated")
            /\ UNCHANGED status
       ELSE /\ out' = AuthEvent(h, "auth_error")
            /\ status' = [status EXCEPT ![h] = "closed"]
            /\ UNCHANGED <<userSockets, socketUserId, rooms, identity>>
    /\ UNCHANGED <<client, storeVars, pendingRT, pendingRest, dirVars>>

\* socket.on('authenticate')
Authenticate(h, token) ==
    /\ status[h] = "open"
    /\ IF jwtVerifies(token, JWT_SECRET)
       THEN LET userId == DecodedUserId(token.payload) IN
            /\ identity' = [identity EXCEPT ![h] = TokenOwner(token)]
            /\ userSockets' = MapAdd(userSockets, userId, h)
            /\ socketUserId' = [socketUserId EXCEPT ![h] = userId]
            /\ rooms' = [rooms EXCEPT ![h] = rooms[h] \cup {RoomName(userId)}]
            /\ out' = AuthEvent(h, "authenticated")
       ELSE /\ out' = AuthEvent(h, "auth_error")
            /\ UNCHANGED <<userSockets, socketUserId, rooms, identity>>
    /\ UNCHANGED status
    /\ UNCHANGED <<client, storeVars, pendingRT, pendingRest, dirVars>>

\* socket.on('disconnect'); socket.io takes a closed socket out of its rooms
Disconnect(h) ==
    /\ status[h] = "open"
    /\ status' = [status EXCEPT ![h] = "closed"]
    /\ rooms' = [rooms EXCEPT ![h] = {}]
    /\ userSockets' = IF Truthy(socketUserId[h])
                      THEN MapRemove(userSockets, socketUserId[h], h)
                      ELSE userSockets
    /\ out' = Silent
    /\ UNCHANGED <<socketUserId, identity>>
    /\ UNCHANGED <<client, storeVars, pendingRT, pendingRest, dirVars>>

(***************************************************************************)
(* Message log                                                             *)
(***************************************************************************)
\* Most messages the log and the INSERTs in flight may hold together.
MaxMsgs == 2

\* The instants new Date().toISOString() may return, as numbers: ISO-8601 text
\* in UTC compares as the instants do.  The server clock is an input: two sends
\* may read the same instant, and the clock may be set back.
Times == {1, 2}

\* A store that hands out the largest id in use again.
NextMessageId_Reused(seq) == IF seq = 0 THEN 1 ELSE seq

\* INTEGER PRIMARY KEY AUTOINCREMENT: one more than the largest id ever used
NextMessageId(seq) == seq + 1

\* INSERT INTO messages (sender_id, receiver_id, content, timestamp)
MessageRow(id, senderId, receiverId, content, timestamp) ==
    [id |-> id, sender_id |-> senderId, receiver_id |-> receiverId,
     content |-> content, timestamp |-> timestamp]

InFlight == Cardinality(pendingRT) + Cardinality(pendingRest)

(***************************************************************************)
(* Real-time send                                                          *)
(***************************************************************************)
\* What a client may put in the fields of a send_message payload.
ReceiverIds == Users \cup {NoUser, Undefined}

Contents == {"hi", "", Undefined}

TempIds == {"tmp-1", Undefined}

\* A send_message payload that is not an object.
NullData == [null |-> TRUE]

Payloads ==
    [receiverId : ReceiverIds, content : Contents, temp_id : TempIds] \cup {NullData}

\* The payloads a client sends for a message that can be delivered.
WellFormedPayloads == [receiverId : Users, content : {"hi"}, temp_id : {"tmp-1"}]

\* A check that forgets the content.
InvalidPayload_NoContentCheck(userId, data) ==
    ~Truthy(userId) \/ ~Truthy(data.receiverId)

\* if (!socket.userId || !receiverId || !content)
InvalidPayload(userId, data) ==
    ~Truthy(userId) \/ ~Truthy(data.receiverId) \/ ~Truthy(data.content)

\* ack({success: false, error, temp_id}) or, without a callback,
\* socket.emit('message_error', {message, temp_id})
ErrorReply(ack, error, tempId) ==
    [via |-> IF ack THEN "ack" ELSE "message_error", success |-> FALSE,
     error |-> error, temp_id |-> tempId]

\* messageData of the send_message handler
MessageData(row, tempId) ==
    [id |-> row.id, sender_id |-> row.sender_id, receiver_id |-> row.receiver_id,
     content |-> row.content, timestamp |-> row.timestamp, isOutgoing |-> TRUE,
     temp_id |-> tempId]

\* ack({success: true, messageData}) or socket.emit('message_sent', messageData)
SuccessReply(ack, messageData) ==
    [via |-> IF ack THEN "ack" ELSE "message_sent", success |-> TRUE,
     messageData |-> messageData]

\* A new_message event that spreads messageData as it is: {...messageData, isOutgoing: false}
NewMessageEvent_KeepsTempId(messageData) == [messageData EXCEPT !.isOutgoing = FALSE]

\* the new_message event: {...messageData, isOutgoing: false, temp_id: undefined}
NewMessageEvent(messageData) ==
    [messageData EXCEPT !.isOutgoing = FALSE, !.temp_id = Undefined]

\* io.to(`user:${receiverId}`): the connected sockets that have joined the room
RoomMembers(receiverId) ==
    {h \in Conns : status[h] = "open" /\ RoomName(receiverId) \in rooms[h]}

\* The open connections of a user: those bound to it by their latest token
\* and those in its room.
LiveConnections(u) ==
    {h \in Conns : status[h] = "open" /\ (identity[h] = u \/ RoomName(u) \in rooms[h])}

\* What one run of the send_message handler (or of its db.run callback) gave
\* out: the responses to the sender, in order, and the new_message events
\* each connection received.
SendOutput(h, userId, data, ack, replies, events) ==
    [kind |-> "send_message", conn |-> h, userId |-> userId, request |-> data,
     ack |-> ack, replies |-> replies, events |-> events]

NoEvents == [h \in Conns |-> <<>>]

\* A handler that lets the payload name the sender and the time:
\* const senderId = data.sender_id || socket.userId
SendMessage_TrustsPayload(h, data, ack, timestamp) ==
    /\ status[h] = "open"
    /\ IF data = NullData
       THEN /\ out' = SendOutput(h, socketUserId[h], data, ack,
                          <<ErrorReply(ack, "Server error", Undefined)>>, NoEvents)
            /\ UNCHANGED pendingRT
       ELSE IF InvalidPayload(socketUserId[h], data)
       THEN /\ out' = SendOutput(h, socketUserId[h], data, ack,
                          <<ErrorReply(ack, "Invalid message payload", data.temp_id)>>,
                          NoEvents)
            /\ UNCHANGED pendingRT
       ELSE /\ Len(log) + InFlight < MaxMsgs
            /\ pendingRT' = pendingRT \cup
                   {[conn |-> h,
                     senderId |-> IF Truthy(Field(data, "sender_id"))
                                  THEN data.sender_id ELSE socketUserId[h],
                     data |-> data,
                     timestamp |-> IF "timestamp" \in DOMAIN data
                                   THEN data.timestamp ELSE timestamp,
                     ack |-> ack]}
            /\ out' = Silent
    /\ UNCHANGED <<client, connVars, storeVars, pendingRest, dirVars>>

\* socket.on('send_message'): the synchronous part, up to the db.run call
SendMessage(h, data, ack, timestamp) ==
    /\ status[h] = "open"
    /\ IF data = NullData
       THEN \* destructuring throws; the catch block answers
            /\ out' = SendOutput(h, socketUserId[h], data, ack,
                          <<ErrorReply(ack, "Server error", Undefined)>>, NoEvents)
            /\ UNCHANGED pendingRT
       ELSE IF InvalidPayload(socketUserId[h], data)
       THEN /\ out' = SendOutput(h, socketUserId[h], data, ack,
                          <<ErrorReply(ack, "Invalid message payload", data.temp_id)>>,
                          NoEvents)
            /\ UNCHANGED pendingRT
       ELSE /\ Len(log) + InFlight < MaxMsgs
            /\ pendingRT' = pendingRT \cup
                   {[conn |-> h, senderId |-> socketUserId[h], data |-> data,
                     timestamp |-> timestamp, ack |-> ack]}
            /\ out' = Silent
    /\ UNCHANGED <<client, connVars, storeVars, pendingRest, dirVars>>

\* the callback of db.run, called with an error
SendMessageFailed(p) ==
    /\ p \in pendingRT
    /\ pendingRT' = pendingRT \ {p}
    /\ out' = SendOutput(p.conn, p.senderId, p.data, p.ack,
                  <<ErrorReply(p.ack, "Failed to save message", p.data.temp_id)>>,
                  NoEvents)
    /\ UNCHANGED <<client, connVars, storeVars, pendingRest, dirVars>>

\* A callback that acknowledges and emits message_sent as well, with no else between.
SendMessageSaved_AlsoEmits(p) ==
    /\ p \in pendingRT
    /\ pendingRT' = pendingRT \ {p}
    /\ LET messageId == NextMessageId(lastID)
           row == MessageRow(messageId, p.senderId, p.data.receiverId,
                             p.data.content, p.timestamp)
           messageData == MessageData(row, p.data.temp_id)
       IN /\ log' = Append(log, row)
          /\ lastID' = messageId
          /\ out' = SendOutput(p.conn, p.senderId, p.data, p.ack,
                        IF p.ack
                        THEN <<SuccessReply(TRUE, messageData), SuccessReply(FALSE, messageData)>>
                        ELSE <<SuccessReply(FALSE, messageData)>>,
                        [h \in Conns |->
                            IF h \in RoomMembers(p.data.receiverId)
                            THEN <<NewMessageEvent(messageData)>>
                            ELSE <<>>])
    /\ offline' = IF LiveConnections(p.data.receiverId) = {}
                   THEN offline \cup {NextMessageId(lastID)} ELSE offline
    /\ UNCHANGED <<client, connVars, pendingRest, dirVars>>

\* the callback of db.run after the row is saved: answer the sender, notify the receiver
SendMessageSaved(p) ==
    /\ p \in pendingRT
    /\ pendingRT' = pendingRT \ {p}
    /\ LET messageId == NextMessageId(lastID)
           row == MessageRow(messageId, p.senderId, p.data.receiverId,
                             p.data.content, p.timestamp)
           messageData == MessageData(row, p.data.temp_id)
       IN /\ log' = Append(log, row)
          /\ lastID' = messageId
          /\ out' = SendOutput(p.conn, p.senderId, p.data, p.ack,
                        <<SuccessReply(p.ack, messageData)>>,
                        [h \in Conns |->
                            IF h \in RoomMembers(p.data.receiverId)
                            THEN <<NewMessageEvent(messageData)>>
                            ELSE <<>>])
    /\ offline' = IF LiveConnections(p.data.receiverId) = {}
                   THEN offline \cup {NextMessageId(lastID)} ELSE offline
    /\ UNCHANGED <<client, connVars, pendingRest, dirVars>>

(***************************************************************************)
(* POST /messages                                                          *)
(***************************************************************************)
RestContents == Contents \cup {" "}

\* String.prototype.trim on the contents the model uses
Trim(content) == IF content = " " THEN "" ELSE content

\* A validation that forgets the content.
InvalidBody_NoContentCheck(receiverId, content) == ~Truthy(receiverId)

\* if (!receiverId || !content || content.trim() === '')
InvalidBody(receiverId, content) ==
    ~Truthy(receiverId) \/ ~Truthy(content) \/ Trim(content) = ""

\* SELECT id FROM users WHERE id = ?
UserExists(id) == id \in Users

\* res.status(code).json(body), with the request it answers
RestReply(op, user, request, code, body) ==
    [kind |-> op, user |-> user, request |-> request, code |-> code, body |-> body]

\* exports.sendMessage up to the db.run call: validation and the receiver lookup
\* (the users table never changes, so the lookup is taken with the validation);
\* dbError is the store failing the lookup
RestSendMessage(senderId, receiverId, content, timestamp, dbError) ==
    LET request == [receiverId |-> receiverId, content |-> content] IN
    /\ IF InvalidBody(receiverId, content)
       THEN /\ out' = RestReply("sendMessage", senderId, request, 400, Undefined)
            /\ UNCHANGED pendingRest
       ELSE IF dbError
       THEN /\ out' = RestReply("sendMessage", senderId, request, 500, Undefined)
            /\ UNCHANGED pendingRest
       ELSE IF ~UserExists(receiverId)
       THEN /\ out' = RestReply("sendMessage", senderId, request, 404, Undefined)
            /\ UNCHANGED pendingRest
       ELSE /\ Len(log) + InFlight < MaxMsgs
            /\ pendingRest' = pendingRest \cup
                   {[senderId |-> senderId, request |-> request, timestamp |-> timestamp]}
            /\ out' = Silent
    /\ UNCHANGED <<client, connVars, storeVars, pendingRT, dirVars>>

\* the callback of db.run in exports.sendMessage, called with an error
RestSendFailed(p) ==
    /\ p \in pendingRest
    /\ pendingRest' = pendingRest \ {p}
    /\ out' = RestReply("sendMessage", p.senderId, p.request, 500, Undefined)
    /\ UNCHANGED <<client, connVars, storeVars, pendingRT, dirVars>>

\* the callback of db.run in exports.sendMessage after the row is saved
RestSendSaved(p) ==
    /\ p \in pendingRest
    /\ pendingRest' = pendingRest \ {p}
    /\ LET messageId == NextMessageId(lastID)
           row == MessageRow(messageId, p.senderId, p.request.receiverId,
                             p.request.content, p.timestamp)
       IN /\ log' = Append(log, row)
          /\ lastID' = messageId
          /\ out' = RestReply("sendMessage", p.senderId, p.request, 201,
                        [id |-> messageId, content |-> row.content,
                         timestamp |-> row.timestamp, isOutgoing |-> TRUE])
    /\ offline' = IF LiveConnections(p.request.receiverId) = {}
                   THEN offline \cup {NextMessageId(lastID)} ELSE offline
    /\ UNCHANGED <<client, connVars, pendingRT, dirVars>>

(***************************************************************************)
(* Contact directory                                                       *)
(***************************************************************************)
\* Largest id the contacts table hands out.
MaxContactId == 2

\* The nicknames a user may choose.
Nicknames == {"Bob"}

\* SELECT * FROM contacts WHERE user_id = ? AND contact_id = ?
ContactRows(userId, contactId) ==
    {c \in contacts : c.user_id = userId /\ c.contact_id = contactId}

\* The row db.get hands to its callback when there is one: the first match.
FirstRow(matches) == CHOOSE c \in matches : TRUE

\* createContactIfNotExists: const contactNickname = user.phone_number
DefaultNickname(contactId) == PhoneNumber[contactId]

\* INSERT INTO contacts (user_id, contact_id, nickname)
ContactRow(id, userId, contactId, nickname) ==
    [id |-> id, user_id |-> userId, contact_id |-> contactId, nickname |-> nickname]

\* The arguments createContactIfNotExists calls its callback with.
EnsureResult(task, err, contact) ==
    [kind |-> "createContactIfNotExists", userId |-> task.userId,
     contactId |-> task.contactId, caller |-> task.caller, err |-> err,
     contact |-> contact]

FreeSlots == {t \in TaskIds : tasks[t] = Idle}

\* createContactIfNotExists(db, userId, contactId, callback): the first db.get is issued
EnsureTask(userId, contactId, caller) ==
    [pc |-> "check", userId |-> userId, contactId |-> contactId,
     nickname |-> Undefined, caller |-> caller]

\* A getMessagesWith that gives up once createContactIfNotExists has called back.
AfterEnsure_GivesUp(task) == Idle

\* What becomes of a task once createContactIfNotExists has called back:
\* getMessagesWith goes on to its db.all, the other callers only log.
AfterEnsure(task) ==
    IF task.caller = "getMessagesWith"
    THEN [pc |-> "messages", userId |-> task.userId, contactId |-> task.contactId]
    ELSE Idle

\* A first callback that goes on to create whether or not a row was found.
EnsureCheck_AlwaysCreate(t, dbError) ==
    LET task == tasks[t] IN
    /\ task.pc = "check"
    /\ IF dbError
       THEN /\ tasks' = [tasks EXCEPT ![t] = AfterEnsure(task)]
            /\ out' = EnsureResult(task, "store error", Undefined)
       ELSE /\ tasks' = [tasks EXCEPT ![t] = [task EXCEPT !.pc = "user"]]
            /\ out' = Silent
    /\ UNCHANGED <<client, connVars, storeVars, pendingRT, pendingRest, contacts, contactSeq>>

\* createContactIfNotExists, callback of the first db.get
EnsureCheck(t, dbError) ==
    LET task == tasks[t]
        matches == ContactRows(task.userId, task.contactId)
    IN /\ task.pc = "check"
       /\ IF dbError
          THEN /\ tasks' = [tasks EXCEPT ![t] = AfterEnsure(task)]
               /\ out' = EnsureResult(task, "store error", Undefined)
          ELSE IF matches # {}
          THEN /\ tasks' = [tasks EXCEPT ![t] = AfterEnsure(task)]
               /\ out' = EnsureResult(task, Undefined, FirstRow(matches))
          ELSE /\ tasks' = [tasks EXCEPT ![t] = [task EXCEPT !.pc = "user"]]
               /\ out' = Silent
       /\ UNCHANGED <<client, connVars, storeVars, pendingRT, pendingRest, contacts, contactSeq>>

\* createContactIfNotExists, callback of db.get on users
EnsureUser(t, dbError) ==
    LET task == tasks[t] IN
    /\ task.pc = "user"
    /\ IF dbError
       THEN /\ tasks' = [tasks EXCEPT ![t] = AfterEnsure(task)]
            /\ out' = EnsureResult(task, "store error", Undefined)
       ELSE IF ~UserExists(task.contactId)
       THEN /\ tasks' = [tasks EXCEPT ![t] = AfterEnsure(task)]
            /\ out' = EnsureResult(task, "User not found", Undefined)
       ELSE /\ tasks' = [tasks EXCEPT ![t] = [task EXCEPT !.pc = "insert",
                                        !.nickname = DefaultNickname(task.contactId)]]
            /\ out' = Silent
    /\ UNCHANGED <<client, connVars, storeVars, pendingRT, pendingRest, contacts, contactSeq>>

\* A contacts table without UNIQUE (user_id, contact_id): the INSERT always goes through.
EnsureInsert_NoUnique(t, dbError) ==
    LET task == tasks[t] IN
    /\ task.pc = "insert"
    /\ IF dbError
       THEN /\ out' = EnsureResult(task, "store error", Undefined)
            /\ UNCHANGED <<contacts, contactSeq>>
       ELSE /\ contactSeq < MaxContactId
            /\ contactSeq' = contactSeq + 1
            /\ contacts' = contacts \cup
                   {ContactRow(contactSeq + 1, task.userId, task.contactId, task.nickname)}
            /\ out' = EnsureResult(task, Undefined,
                          [id |-> contactSeq + 1, contact_id |-> task.contactId,
                           nickname |-> task.nickname])
    /\ tasks' = [tasks EXCEPT ![t] = AfterEnsure(task)]
    /\ UNCHANGED <<client, connVars, storeVars, pendingRT, pendingRest>>

\* An INSERT that, on a conflict, writes its nickname over the row's.
EnsureInsert_Upsert(t, dbError) ==
    LET task == tasks[t]
        hit == ContactRows(task.userId, task.contactId)
    IN /\ task.pc = "insert"
       /\ IF dbError
          THEN /\ out' = EnsureResult(task, "store error", Undefined)
               /\ UNCHANGED <<contacts, contactSeq>>
          ELSE IF hit # {}
          THEN /\ contacts' = (contacts \ hit) \cup
                      {[c EXCEPT !.nickname = task.nickname] : c \in hit}
               /\ out' = EnsureResult(task, Undefined,
                             [id |-> (CHOOSE c \in hit : TRUE).id,
                              contact_id |-> task.contactId, nickname |-> task.nickname])
               /\ UNCHANGED contactSeq
          ELSE /\ contactSeq < MaxContactId
               /\ contactSeq' = contactSeq + 1
               /\ contacts' = contacts \cup
                      {ContactRow(contactSeq + 1, task.userId, task.contactId, task.nickname)}
               /\ out' = EnsureResult(task, Undefined,
                             [id |-> contactSeq + 1, contact_id |-> task.contactId,
                              nickname |-> task.nickname])
       /\ tasks' = [tasks EXCEPT ![t] = AfterEnsure(task)]
       /\ UNCHANGED <<client, connVars, storeVars, pendingRT, pendingRest>>

\* createContactIfNotExists, callback of db.run; UNIQUE (user_id, contact_id)
\* makes the INSERT fail when the pair has a row by now
EnsureInsert(t, dbError) ==
    LET task == tasks[t] IN
    /\ task.pc = "insert"
    /\ IF dbError
       THEN /\ out' = EnsureResult(task, "store error", Undefined)
            /\ UNCHANGED <<contacts, contactSeq>>
       ELSE IF ContactRows(task.userId, task.contactId) # {}
       THEN /\ out' = EnsureResult(task, "UNIQUE constraint failed", Undefined)
            /\ UNCHANGED <<contacts, contactSeq>>
       ELSE /\ contactSeq < MaxContactId
            /\ contactSeq' = contactSeq + 1
            /\ contacts' = contacts \cup
                   {ContactRow(contactSeq + 1, task.userId, task.contactId, task.nickname)}
            /\ out' = EnsureResult(task, Undefined,
                          [id |-> contactSeq + 1, contact_id |-> task.contactId,
                           nickname |-> task.nickname])
    /\ tasks' = [tasks EXCEPT ![t] = AfterEnsure(task)]
    /\ UNCHANGED <<client, connVars, storeVars, pendingRT, pendingRest>>

\* exports.updateContact: UPDATE contacts SET nickname = ? WHERE id = ? AND user_id = ?
UpdateContact(userId, id, nickname, dbError) ==
    LET request == [id |-> id, nickname |-> nickname]
        hit == {c \in contacts : c.id = id /\ c.user_id = userId}
    IN /\ IF ~Truthy(nickname)
          THEN /\ out' = RestReply("updateContact", userId, request, 400, Undefined)
               /\ UNCHANGED contacts
          ELSE IF dbError
          THEN /\ out' = RestReply("updateContact", userId, request, 500, Undefined)
               /\ UNCHANGED contacts
          ELSE IF hit = {}
          THEN /\ out' = RestReply("updateContact", userId, request, 404, Undefined)
               /\ UNCHANGED contacts
          ELSE /\ contacts' = (contacts \ hit) \cup
                      {[c EXCEPT !.nickname = nickname] : c \in hit}
               /\ out' = RestReply("updateContact", userId, request, 200,
                             [id |-> id, nickname |-> nickname])
       /\ UNCHANGED <<client, connVars, storeVars, pendingRT, pendingRest, contactSeq, tasks>>

\* exports.deleteContact: DELETE FROM contacts WHERE id = ? AND user_id = ?
DeleteContact(userId, id, dbError) ==
    LET request == [id |-> id]
        hit == {c \in contacts : c.id = id /\ c.user_id = userId}
    IN /\ IF dbError
          THEN /\ out' = RestReply("deleteContact", userId, request, 500, Undefined)
               /\ UNCHANGED contacts
          ELSE IF hit = {}
          THEN /\ out' = RestReply("deleteContact", userId, request, 404, Undefined)
               /\ UNCHANGED contacts
          ELSE /\ contacts' = contacts \ hit
               /\ out' = RestReply("deleteContact", userId, request, 200, Undefined)
       /\ UNCHANGED <<client, connVars, storeVars, pendingRT, pendingRest, contactSeq, tasks>>

(***************************************************************************)
(* GET /messages/conversations                                             *)
(***************************************************************************)
Rows(table) == {table[i] : i \in DOMAIN table}

Max(S) == CHOOSE x \in S : \A y \in S : y <= x

\* The ways to list a finite set, each element once.
Listings(S) == {f \in [1..Cardinality(S) -> S] : \A x \in S : \E i \in DOMAIN f : f[i] = x}

\* CASE WHEN sender_id = ? THEN receiver_id ELSE sender_id END as other_user_id
OtherUserId(userId, m) == IF m.sender_id = userId THEN m.receiver_id ELSE m.sender_id

\* An inner SELECT that takes MIN(id) per other_user_id.
LatestPerPeer_Oldest(userId, table) ==
    LET mine == {m \in Rows(table) : m.sender_id = userId \/ m.receiver_id = userId}
        Least(S) == CHOOSE x \in S : \A y \in S : x <= y
    IN {[max_id |-> Least({m.id : m \in {x \in mine : OtherUserId(userId, x) = peer}}),
         other_user_id |-> peer] : peer \in {OtherUserId(userId, m) : m \in mine}}

\* The inner SELECT: MAX(id) per other_user_id over the user's messages
LatestPerPeer(userId, table) ==
    LET mine == {m \in Rows(table) : m.sender_id = userId \/ m.receiver_id = userId}
    IN {[max_id |-> Max({m.id : m \in {x \in mine : OtherUserId(userId, x) = peer}}),
         other_user_id |-> peer] : peer \in {OtherUserId(userId, m) : m \in mine}}

\* The rows of the conversations query: m1 joined to the groups on the id,
\* to users on the peer, left-joined to the user's contacts
ConversationRows(userId, table, dir) ==
    UNION {
      {[id |-> m1.id, sender_id |-> m1.sender_id, receiver_id |-> m1.receiver_id,
        content |-> m1.content, timestamp |-> m1.timestamp,
        other_username |-> Username[m2.other_user_id], nickname |-> nick]
        : nick \in (IF \E c \in dir : c.contact_id = m2.other_user_id /\ c.user_id = userId
                    THEN {c.nickname : c \in {x \in dir : x.contact_id = m2.other_user_id
                                                          /\ x.user_id = userId}}
                    ELSE {Undefined})}
      : <<m1, m2>> \in {<<m, g>> \in Rows(table) \X LatestPerPeer(userId, table) :
                            m.id = g.max_id /\ UserExists(g.other_user_id)} }

\* conversations.map(convo => formattedConvo)
FormatConversation(userId, convo) ==
    LET isOutgoing == convo.sender_id = userId IN
    [id |-> convo.id,
     contact_id |-> IF isOutgoing THEN convo.receiver_id ELSE convo.sender_id,
     name |-> IF Truthy(convo.nickname) THEN convo.nickname ELSE convo.other_username,
     last_message |-> convo.content, timestamp |-> convo.timestamp,
     isOutgoing |-> isOutgoing]

\* A condition that lost a negation: if (!isOutgoing && convo.nickname)
PeersToEnsure_Nicknamed(userId, rows) ==
    {convo.sender_id : convo \in {r \in rows : r.sender_id # userId /\ Truthy(r.nickname)}}

\* The peers getConversations calls createContactIfNotExists for:
\* if (!isOutgoing && !convo.nickname)
PeersToEnsure(userId, rows) ==
    {convo.sender_id : convo \in {r \in rows : r.sender_id # userId /\ ~Truthy(r.nickname)}}

\* exports.getConversations: the callback of db.all
GetConversations(userId, dbError) ==
    IF dbError
    THEN /\ out' = RestReply("getConversations", userId, Undefined, 500, Undefined)
         /\ UNCHANGED tasks
         /\ UNCHANGED <<client, connVars, storeVars, pendingRT, pendingRest, contacts, contactSeq>>
    ELSE LET rows == ConversationRows(userId, log, contacts)
             peers == PeersToEnsure(userId, rows)
         IN /\ Cardinality(peers) <= Cardinality(FreeSlots)
            /\ \E conversations \in Listings(rows), slot \in [peers -> FreeSlots] :
                  \* ORDER BY m1.timestamp DESC
                  /\ \A i, j \in DOMAIN conversations :
                        i < j => conversations[i].timestamp >= conversations[j].timestamp
                  /\ \A a, b \in peers : a # b => slot[a] # slot[b]
                  /\ \A a \in peers : \A f \in FreeSlots :
                        f < slot[a] => \E b \in peers : slot[b] = f
                  /\ \A a, b \in peers : slot[a] < slot[b] =>
                        (CHOOSE i \in DOMAIN conversations : conversations[i].sender_id = a)
                          < (CHOOSE i \in DOMAIN conversations : conversations[i].sender_id = b)
                  /\ tasks' = [t \in TaskIds |->
                                  IF \E a \in peers : slot[a] = t
                                  THEN EnsureTask(userId,
                                           CHOOSE a \in peers : slot[a] = t,
                                           "getConversations")
                                  ELSE tasks[t]]
                  /\ out' = RestReply("getConversations", userId, Undefined, 200,
                                [i \in DOMAIN conversations |->
                                    FormatConversation(userId, conversations[i])])
            /\ UNCHANGED <<client, connVars, storeVars, pendingRT, pendingRest, contacts, contactSeq>>

(***************************************************************************)
(* GET /messages/:contactId                                                *)
(***************************************************************************)
\* exports.getMessagesWith up to createContactIfNotExists: the lookup of the peer
GetMessagesWith(userId, contactId, dbError) ==
    LET request == [contactId |-> contactId] IN
    /\ IF dbError
       THEN /\ out' = RestReply("getMessagesWith", userId, request, 500, Undefined)
            /\ UNCHANGED tasks
       ELSE IF ~UserExists(contactId)
       THEN /\ out' = RestReply("getMessagesWith", userId, request, 404, Undefined)
            /\ UNCHANGED tasks
       ELSE /\ FreeSlots # {}
            /\ tasks' = [tasks EXCEPT ![CHOOSE t \in FreeSlots : \A f \in FreeSlots : t <= f]
                                          = EnsureTask(userId, contactId, "getMessagesWith")]
            /\ out' = Silent
    /\ UNCHANGED <<client, connVars, storeVars, pendingRT, pendingRest, contacts, contactSeq>>

\* A query that selects the outgoing direction only.
MessagesBetween_OutgoingOnly(userId, contactId, table) ==
    {m \in Rows(table) : m.sender_id = userId /\ m.receiver_id = contactId}

\* WHERE (sender_id = ? AND receiver_id = ?) OR (sender_id = ? AND receiver_id = ?)
MessagesBetween(userId, contactId, table) ==
    {m \in Rows(table) :
        \/ (m.sender_id = userId /\ m.receiver_id = contactId)
        \/ (m.sender_id = contactId /\ m.receiver_id = userId)}

\* messages.map(msg => ({id, content, timestamp, isOutgoing}))
FormatMessage(userId, msg) ==
    [id |-> msg.id, content |-> msg.content, timestamp |-> msg.timestamp,
     isOutgoing |-> msg.sender_id = userId]

\* exports.getMessagesWith: the callback of db.all
GetMessagesQuery(t, dbError) ==
    LET task == tasks[t]
        request == [contactId |-> task.contactId]
    IN /\ task.pc = "messages"
       /\ tasks' = [tasks EXCEPT ![t] = Idle]
       /\ IF dbError
          THEN out' = RestReply("getMessagesWith", task.userId, request, 500, Undefined)
          ELSE \E messages \in Listings(MessagesBetween(task.userId, task.contactId, log)) :
                  \* ORDER BY timestamp ASC
                  /\ \A i, j \in DOMAIN messages :
                        i < j => messages[i].timestamp <= messages[j].timestamp
                  /\ out' = RestReply("getMessagesWith", task.userId, request, 200,
                                [i \in DOMAIN messages |->
                                    FormatMessage(task.userId, messages[i])])
       /\ UNCHANGED <<client, connVars, storeVars, pendingRT, pendingRest, contacts, contactSeq>>

(***************************************************************************)
(* POST /contacts                                                          *)
(***************************************************************************)
\* exports.addContact up to the contacts lookup: validation and the lookup of
\* the peer; const contactNickname = nickname || user.phone_number
AddContact(userId, contactId, nickname, dbError) ==
    LET request == [contactId |-> contactId, nickname |-> nickname] IN
    /\ IF ~Truthy(contactId)
       THEN /\ out' = RestReply("addContact", userId, request, 400, Undefined)
            /\ UNCHANGED tasks
       ELSE IF dbError
       THEN /\ out' = RestReply("addContact", userId, request, 500, Undefined)
            /\ UNCHANGED tasks
       ELSE IF ~UserExists(contactId)
       THEN /\ out' = RestReply("addContact", userId, request, 404, Undefined)
            /\ UNCHANGED tasks
       ELSE /\ FreeSlots # {}
            /\ tasks' = [tasks EXCEPT ![CHOOSE t \in FreeSlots : \A f \in FreeSlots : t <= f]
                           = [pc |-> "addCheck", userId |-> userId, contactId |-> contactId,
                              nickname |-> IF Truthy(nickname) THEN nickname
                                           ELSE PhoneNumber[contactId],
                              caller |-> "addContact", request |-> request]]
            /\ out' = Silent
    /\ UNCHANGED <<client, connVars, storeVars, pendingRT, pendingRest, contacts, contactSeq>>

\* exports.addContact, callback of db.get on contacts
AddContactCheck(t, dbError) ==
    LET task == tasks[t] IN
    /\ task.pc = "addCheck"
    /\ IF dbError
       THEN /\ tasks' = [tasks EXCEPT ![t] = Idle]
            /\ out' = RestReply("addContact", task.userId, task.request, 500, Undefined)
       ELSE IF ContactRows(task.userId, task.contactId) # {}
       THEN /\ tasks' = [tasks EXCEPT ![t] = Idle]
            /\ out' = RestReply("addContact", task.userId, task.request, 400, Undefined)
       ELSE /\ tasks' = [tasks EXCEPT ![t] = [task EXCEPT !.pc = "addInsert"]]
            /\ out' = Silent
    /\ UNCHANGED <<client, connVars, storeVars, pendingRT, pendingRest, contacts, contactSeq>>

\* exports.addContact, callback of db.run; UNIQUE (user_id, contact_id) makes
\* the INSERT fail when the pair has a row by now
AddContactInsert(t, dbError) ==
    LET task == tasks[t] IN
    /\ task.pc = "addInsert"
    /\ IF dbError \/ ContactRows(task.userId, task.contactId) # {}
       THEN /\ out' = RestReply("addContact", task.userId, task.request, 500, Undefined)
            /\ UNCHANGED <<contacts, contactSeq>>
       ELSE /\ contactSeq < MaxContactId
            /\ contactSeq' = contactSeq + 1
            /\ contacts' = contacts \cup
                   {ContactRow(contactSeq + 1, task.userId, task.contactId, task.nickname)}
            /\ out' = RestReply("addContact", task.userId, task.request, 201,
                          [id |-> contactSeq + 1, contact_id |-> task.contactId,
                           nickname |-> task.nickname])
    /\ tasks' = [tasks EXCEPT ![t] = Idle]
    /\ UNCHANGED <<client, connVars, storeVars, pendingRT, pendingRest>>

(***************************************************************************)
(* GET /messages/check-new                                                 *)
(***************************************************************************)
\* req.query without lastMessageId
NoQuery == [absent |-> TRUE]

\* req.query: with or without lastMessageId
Queries == {NoQuery} \cup [lastMessageId : 0..MaxMsgs]

\* A query that forgets WHERE m.receiver_id = ?: every message of the user.
NewMessages_BothDirections(userId, query, table) ==
    {m \in Rows(table) :
        /\ (m.receiver_id = userId \/ m.sender_id = userId)
        /\ UserExists(m.sender_id)
        /\ ("lastMessageId" \in DOMAIN query => m.id > query.lastMessageId)}

\* FROM messages m JOIN users u ON m.sender_id = u.id WHERE m.receiver_id = ?
\* [AND m.id > ?]
NewMessages(userId, query, table) ==
    {m \in Rows(table) :
        /\ m.receiver_id = userId
        /\ UserExists(m.sender_id)
        /\ ("lastMessageId" \in DOMAIN query => m.id > query.lastMessageId)}

\* messages.map(msg => ({id, content, timestamp, sender_id, sender_name, sender_phone}))
FormatNewMessage(msg) ==
    [id |-> msg.id, content |-> msg.content, timestamp |-> msg.timestamp,
     sender_id |-> msg.sender_id, sender_name |-> Username[msg.sender_id],
     sender_phone |-> PhoneNumber[msg.sender_id]]

\* exports.checkNewMessages: the callback of db.all
CheckNewMessages(userId, query, dbError) ==
    IF dbError
    THEN /\ out' = RestReply("checkNewMessages", userId, query, 500, Undefined)
         /\ UNCHANGED tasks
         /\ UNCHANGED <<client, connVars, storeVars, pendingRT, pendingRest, contacts, contactSeq>>
    ELSE LET rows == NewMessages(userId, query, log)
             \* [...new Set(messages.map(msg => msg.sender_id))]
             senderIds == {m.sender_id : m \in rows}
         IN /\ Cardinality(senderIds) <= Cardinality(FreeSlots)
            /\ \E messages \in Listings(rows), slot \in [senderIds -> FreeSlots] :
                  \* ORDER BY m.timestamp ASC
                  /\ \A i, j \in DOMAIN messages :
                        i < j => messages[i].timestamp <= messages[j].timestamp
                  \* senderIds.forEach: the calls start in the order of first appearance
                  /\ \A a, b \in senderIds : a # b => slot[a] # slot[b]
                  /\ \A a \in senderIds : \A f \in FreeSlots :
                        f < slot[a] => \E b \in senderIds : slot[b] = f
                  /\ \A a, b \in senderIds : slot[a] < slot[b] =>
                        (CHOOSE i \in DOMAIN messages :
                            /\ messages[i].sender_id = a
                            /\ \A k \in 1..(i-1) : messages[k].sender_id # a)
                          < (CHOOSE i \in DOMAIN messages :
                                /\ messages[i].sender_id = b
                                /\ \A k \in 1..(i-1) : messages[k].sender_id # b)
                  /\ tasks' = [t \in TaskIds |->
                                  IF \E a \in senderIds : slot[a] = t
                                  THEN EnsureTask(userId,
                                           CHOOSE a \in senderIds : slot[a] = t,
                                           "checkNewMessages")
                                  ELSE tasks[t]]
                  /\ out' = RestReply("checkNewMessages", userId, query, 200,
                                [i \in DOMAIN messages |-> FormatNewMessage(messages[i])])
            /\ UNCHANGED <<client, connVars, storeVars, pendingRT, pendingRest, contacts, contactSeq>>

(***************************************************************************)
(* Client: socketService and MessagesContext                               *)
(***************************************************************************)
\* The tempId MessagesContext gives a call: `temp-${Date.now()}`, one per call.
TempIdOf(c) == c

\* The sendMessage calls lose the connection they were emitted on.
CutOff(calls) == [c \in CallIds |-> [calls[c] EXCEPT !.connected = FALSE]]

\* MessagesProvider, the socket effect: initSocket(), connect() and the
\* subscriptions.  initSocket returns at once when the socket exists;
\* connect calls socket.connect() unless isConnected.
ContextEffect ==
    /\ ~client.initialized
    /\ client' = [client EXCEPT
                     !.initialized = TRUE,
                     !.socket = TRUE,
                     !.listening = IF client.socket THEN client.listening ELSE TRUE,
                     !.transport = IF ~client.isConnected /\ client.transport = "closed"
                                   THEN "connecting" ELSE client.transport]
    /\ UNCHANGED serverVars

\* socketService.disconnect(), called by the cleanup of the socket effect
\* after it has unsubscribed: socket.removeAllListeners(), socket.disconnect()
\* if isConnected, and the flags and pendingMessages are reset
ServiceDisconnect(cl) ==
    IF ~cl.socket THEN cl
    ELSE [cl EXCEPT
             !.listening = FALSE,
             !.transport = IF cl.isConnected THEN "closed" ELSE cl.transport,
             !.authSent = IF cl.isConnected THEN FALSE ELSE cl.authSent,
             !.calls = IF cl.isConnected THEN CutOff(cl.calls) ELSE cl.calls,
             !.isConnected = FALSE,
             !.isAuthenticated = FALSE,
             !.pendingMessages = {}]

\* MessagesProvider, the cleanup of the socket effect
ContextCleanup ==
    /\ client.initialized
    /\ client' = [ServiceDisconnect(client) EXCEPT !.initialized = FALSE]
    /\ UNCHANGED serverVars

\* The transport connects: socket.on('connect') if the handlers are on the
\* socket, socket.io.on('reconnect') after a lost connection; the subscriber
\* of MessagesContext then calls socketService.authenticate(token), which
\* emits only if isConnected
ClientConnect ==
    /\ client.transport \in {"connecting", "reconnecting"}
    /\ LET connected == client.listening \/ client.transport = "reconnecting"
       IN client' = [client EXCEPT
                        !.transport = "open",
                        !.isConnected = connected \/ client.isConnected,
                        !.authSent = connected /\ client.initialized]
    /\ UNCHANGED serverVars

\* socket.on('authenticated'), when the server has answered the authenticate
ClientAuthenticated ==
    /\ client.transport = "open" /\ client.authSent
    /\ ~client.isAuthenticated
    /\ client' = [client EXCEPT
                     !.isAuthenticated = client.listening]
    /\ UNCHANGED serverVars

\* The connection is lost.  socket.on('disconnect') resets the flags and
\* clears pendingMessages; what the server answers to a request of the lost
\* connection never arrives; socket.io starts to reconnect
ClientDisconnect ==
    /\ client.transport = "open"
    /\ client' = [client EXCEPT
                     !.transport = "reconnecting",
                     !.authSent = FALSE,
                     !.isConnected = IF client.listening THEN FALSE ELSE @,
                     !.isAuthenticated = IF client.listening THEN FALSE ELSE @,
                     !.pendingMessages = IF client.listening THEN {} ELSE @,
                     !.calls = CutOff(client.calls)]
    /\ UNCHANGED serverVars

\* A Promise a later resolve could settle again.
Resolve_Overwrites(call, value) == [call EXCEPT !.result = value]

\* resolve(value) of a call's Promise: only the first resolve counts
Resolve(call, value) ==
    IF call.result = "pending" THEN [call EXCEPT !.result = value] ELSE call

\* The Promise executor of socketService.sendMessage(receiverId, content, tempId)
SendMessageCall(cl, c) ==
    IF ~cl.socket \/ ~cl.isConnected \/ ~cl.isAuthenticated
    THEN [cl EXCEPT !.calls[c] = [@ EXCEPT !.pc = "returned", !.result = "false"]]
    ELSE [cl EXCEPT
             !.pendingMessages = @ \cup {TempIdOf(c)},
             !.calls[c] = [@ EXCEPT !.pc = "emitted", !.timer = "armed",
                                    !.connected = TRUE]]

\* socketService.sendMessage(receiverId, content, tempId), called directly
ClientSendMessage(c) ==
    /\ client.calls[c].pc = "none" /\ client.calls[c].ctx = "none"
    /\ client' = SendMessageCall(client, c)
    /\ UNCHANGED serverVars

\* The acknowledgment callback of socket.emit('send_message', ..., (response) => ...)
ClientAck(c, success) ==
    LET call == client.calls[c] IN
    /\ call.pc = "emitted" /\ call.connected /\ ~call.acked
    /\ client' = [client EXCEPT
                     !.pendingMessages = @ \ {TempIdOf(c)},
                     !.calls[c] = [Resolve(call, IF success THEN "messageData" ELSE "false")
                                      EXCEPT !.acked = TRUE]]
    /\ UNCHANGED serverVars

\* The setTimeout callback, 10 seconds after the call
ClientTimeout(c) ==
    LET call == client.calls[c] IN
    /\ call.timer = "armed"
    /\ IF TempIdOf(c) \in client.pendingMessages
       THEN client' = [client EXCEPT
                          !.pendingMessages = @ \ {TempIdOf(c)},
                          !.calls[c] = [Resolve(call, "false") EXCEPT !.timer = "fired"]]
       ELSE client' = [client EXCEPT !.calls[c] = [call EXCEPT !.timer = "fired"]]
    /\ UNCHANGED serverVars

\* tempMessage of MessagesContext.sendMessage
TempMessage(c) == [id |-> TempIdOf(c), isTemp |-> TRUE, sendFailed |-> FALSE]

\* currentMessages.map(m => (m.isTemp && m.id === tempId) ? {...m, sendFailed: true} : m)
MarkFailed(messages, tempId) ==
    [i \in DOMAIN messages |->
        IF messages[i].isTemp /\ messages[i].id = tempId
        THEN [messages[i] EXCEPT !.sendFailed = TRUE]
        ELSE messages[i]]

\* MessagesContext.sendMessage up to its await: the check of the socket, the
\* temporary message, the call of socketService.sendMessage
ContextSendMessage(c) ==
    /\ client.calls[c].pc = "none" /\ client.calls[c].ctx = "none"
    /\ IF ~client.isConnected \/ ~client.isAuthenticated
       THEN client' = [client EXCEPT !.calls[c] = [@ EXCEPT !.ctx = "done",
                                                            !.result = "false"]]
       ELSE client' = SendMessageCall(
                         [client EXCEPT !.messages = Append(@, TempMessage(c)),
                                        !.calls[c] = [@ EXCEPT !.ctx = "awaiting"]], c)
    /\ UNCHANGED serverVars

\* MessagesContext.sendMessage after its await: a falsy result marks the
\* temporary message, any other result returns true
ContextSendReturns(c) ==
    LET call == client.calls[c] IN
    /\ call.ctx = "awaiting" /\ call.result # "pending"
    /\ client' = [client EXCEPT
                     !.calls[c] = [call EXCEPT !.ctx = "done"],
                     !.messages = IF call.result = "false"
                                  THEN MarkFailed(@, TempIdOf(c)) ELSE @]
    /\ UNCHANGED serverVars

(***************************************************************************)
(* Specifications                                                          *)
(***************************************************************************)
\* The connection registry alone: every token, both connections.
NextRegistry ==
    \/ \E h \in Conns : Connect(h)
    \/ \E h \in Conns, token \in Tokens : Authenticate(h, token)
    \/ \E h \in Conns : Disconnect(h)

SpecRegistry == Init /\ [][NextRegistry]_vars

\* Most real-time sends the delivery specification follows.
MaxSends == 1

\* Delivery: two connections exchanging deliverable messages in real time.
Next ==
    \/ \E h \in Conns : Connect(h)
    \/ \E h \in Conns, token \in Tokens : Authenticate(h, token)
    \/ \E h \in Conns : Disconnect(h)
    \/ /\ Len(log) + InFlight < MaxSends
       /\ \E h \in Conns, data \in WellFormedPayloads, ack \in BOOLEAN :
             SendMessage(h, data, ack, 1)
    \/ \E p \in pendingRT : SendMessageFailed(p)
    \/ \E p \in pendingRT : SendMessageSaved(p)

Spec == Init /\ [][Next]_vars

\* The connection that sends in the specifications that follow one sender.
Sender == "s1"

\* A token whose payload the authenticate handler reads the id of user 1 from,
\* and one it rejects.
SenderTokens == {ForeignToken("1"), ForgedToken}

NoReadInProgress == \A t \in TaskIds : tasks[t] = Idle

\* Validation: one connection, every payload and every body, one message.
NextValidation ==
    \/ Connect(Sender)
    \/ \E token \in Tokens : Authenticate(Sender, token)
    \/ Disconnect(Sender)
    \/ \E data \in Payloads, ack \in BOOLEAN :
          /\ IF data = NullData THEN TRUE
             ELSE IF InvalidPayload(socketUserId[Sender], data) THEN TRUE
             ELSE Len(log) + InFlight < MaxSends
          /\ SendMessage(Sender, data, ack, 1)
    \/ \E p \in pendingRT : SendMessageFailed(p)
    \/ \E p \in pendingRT : SendMessageSaved(p)

SpecValidation == Init /\ [][NextValidation]_vars

\* The message log: real-time and REST sends side by side.
NextLog ==
    \/ Connect(Sender)
    \/ \E token \in SenderTokens : Authenticate(Sender, token)
    \/ Disconnect(Sender)
    \/ \E data \in [receiverId : Users \cup {NoUser}, content : {"hi"}, temp_id : {"tmp-1"}],
          ack \in BOOLEAN, t \in Times : SendMessage(Sender, data, ack, t)
    \/ \E p \in pendingRT : SendMessageFailed(p)
    \/ \E p \in pendingRT : SendMessageSaved(p)
    \/ \E u \in Users, r \in Users \cup {NoUser}, t \in Times, e \in BOOLEAN :
          RestSendMessage(u, r, "hi", t, e)
    \/ \E p \in pendingRest : RestSendFailed(p)
    \/ \E p \in pendingRest : RestSendSaved(p)

SpecLog == Init /\ [][NextLog]_vars

\* The message history: a real-time send, then the receiver reading it back.
NextHistory ==
    \/ Connect(Sender)
    \/ \E token \in SenderTokens : Authenticate(Sender, token)
    \/ Disconnect(Sender)
    \/ /\ Len(log) + InFlight < MaxSends
       /\ \E data \in WellFormedPayloads, ack \in BOOLEAN, t \in Times :
             SendMessage(Sender, data, ack, t)
    \/ \E p \in pendingRT : SendMessageFailed(p)
    \/ \E p \in pendingRT : SendMessageSaved(p)
    \/ /\ NoReadInProgress
       /\ \E u \in Users, c \in Users \cup {NoUser}, e \in BOOLEAN : GetMessagesWith(u, c, e)
    \/ \E t \in TaskIds, e \in BOOLEAN : EnsureCheck(t, e)
    \/ \E t \in TaskIds, e \in BOOLEAN : EnsureUser(t, e)
    \/ \E t \in TaskIds, e \in BOOLEAN : EnsureInsert(t, e)
    \/ \E t \in TaskIds, e \in BOOLEAN : GetMessagesQuery(t, e)

SpecHistory == Init /\ [][NextHistory]_vars

\* The user whose conversation list and contact directory are followed.
Owner == "1"

\* The conversation aggregator: REST sends with distinguishable contents and
\* timestamps, the owner's conversation list, and the contacts the list creates.
AggregateContents == {"hi", "yo"}

NextAggregate ==
    \/ \E u \in Users, r \in Users, c \in AggregateContents, t \in Times, e \in BOOLEAN :
          RestSendMessage(u, r, c, t, e)
    \/ \E p \in pendingRest : RestSendFailed(p)
    \/ \E p \in pendingRest : RestSendSaved(p)
    \/ \E e \in BOOLEAN : GetConversations(Owner, e)
    \/ \E t \in TaskIds, e \in BOOLEAN : EnsureCheck(t, e)
    \/ \E t \in TaskIds, e \in BOOLEAN : EnsureUser(t, e)
    \/ \E t \in TaskIds, e \in BOOLEAN : EnsureInsert(t, e)

SpecAggregate == Init /\ [][NextAggregate]_vars

\* The contact directory of one owner: the history reads that create
\* contacts, and the owner's updates and deletions.
NextDirectory ==
    \/ \E c \in Users \cup {NoUser}, e \in BOOLEAN : GetMessagesWith(Owner, c, e)
    \/ \E t \in TaskIds, e \in BOOLEAN : EnsureCheck(t, e)
    \/ \E t \in TaskIds, e \in BOOLEAN : EnsureUser(t, e)
    \/ \E t \in TaskIds, e \in BOOLEAN : EnsureInsert(t, e)
    \/ \E t \in TaskIds, e \in BOOLEAN : GetMessagesQuery(t, e)
    \/ \E id \in 1..MaxContactId, n \in Nicknames \cup {Undefined}, e \in BOOLEAN :
          UpdateContact(Owner, id, n, e)
    \/ \E id \in 1..MaxContactId, e \in BOOLEAN : DeleteContact(Owner, id, e)

SpecDirectory == Init /\ [][NextDirectory]_vars

\* Every writer of the contact directory of one owner: the explicit add,
\* rename and delete, and the three reads that create contacts, after a
\* message from the other user.
NextContacts ==
    \/ /\ Len(log) + InFlight < MaxSends
       /\ \E e \in BOOLEAN : RestSendMessage("2", Owner, "hi", 1, e)
    \/ \E p \in pendingRest : RestSendFailed(p)
    \/ \E p \in pendingRest : RestSendSaved(p)
    \/ \E c \in Users, n \in Nicknames \cup {Undefined}, e \in BOOLEAN :
          AddContact(Owner, c, n, e)
    \/ \E t \in TaskIds, e \in BOOLEAN : AddContactCheck(t, e)
    \/ \E t \in TaskIds, e \in BOOLEAN : AddContactInsert(t, e)
    \/ \E e \in BOOLEAN : GetConversations(Owner, e)
    \/ \E e \in BOOLEAN : CheckNewMessages(Owner, NoQuery, e)
    \/ \E c \in Users, e \in BOOLEAN : GetMessagesWith(Owner, c, e)
    \/ \E t \in TaskIds, e \in BOOLEAN : EnsureCheck(t, e)
    \/ \E t \in TaskIds, e \in BOOLEAN : EnsureUser(t, e)
    \/ \E t \in TaskIds, e \in BOOLEAN : EnsureInsert(t, e)
    \/ \E t \in TaskIds, e \in BOOLEAN : GetMessagesQuery(t, e)
    \/ \E id \in 1..MaxContactId, n \in Nicknames, e \in BOOLEAN :
          UpdateContact(Owner, id, n, e)
    \/ \E id \in 1..MaxContactId, e \in BOOLEAN : DeleteContact(Owner, id, e)

SpecContacts == Init /\ [][NextContacts]_vars

\* POST /messages alone: every body, known and unknown receivers.
NextRest ==
    \/ \E u \in Users, r \in ReceiverIds, c \in RestContents, t \in Times, e \in BOOLEAN :
          RestSendMessage(u, r, c, t, e)
    \/ \E p \in pendingRest : RestSendFailed(p)
    \/ \E p \in pendingRest : RestSendSaved(p)

SpecRest == Init /\ [][NextRest]_vars

\* Polling and history: REST sends with any timestamps, the owner's
\* check-new polls with and without lastMessageId, and the owner's history reads.
NextPoll ==
    \/ \E u \in Users, r \in Users, t \in Times, e \in BOOLEAN :
          RestSendMessage(u, r, "hi", t, e)
    \/ \E p \in pendingRest : RestSendFailed(p)
    \/ \E p \in pendingRest : RestSendSaved(p)
    \/ \E q \in Queries, e \in BOOLEAN : CheckNewMessages(Owner, q, e)
    \/ /\ NoReadInProgress
       /\ \E c \in Users, e \in BOOLEAN : GetMessagesWith(Owner, c, e)
    \/ \E t \in TaskIds, e \in BOOLEAN : EnsureCheck(t, e)
    \/ \E t \in TaskIds, e \in BOOLEAN : EnsureUser(t, e)
    \/ \E t \in TaskIds, e \in BOOLEAN : EnsureInsert(t, e)
    \/ \E t \in TaskIds, e \in BOOLEAN : GetMessagesQuery(t, e)

SpecPoll == Init /\ [][NextPoll]_vars

\* Fire-and-forget contact creation: messages in both directions, the
\* owner's conversation list and polls, and the store callbacks of the
\* creations they start.  sqlite runs every callback it owes.
NextEnsure ==
    \/ \E u \in Users, r \in Users, e \in BOOLEAN : RestSendMessage(u, r, "hi", 1, e)
    \/ \E p \in pendingRest : RestSendFailed(p)
    \/ \E p \in pendingRest : RestSendSaved(p)
    \/ \E e \in BOOLEAN : GetConversations(Owner, e)
    \/ \E e \in BOOLEAN : CheckNewMessages(Owner, NoQuery, e)
    \/ \E t \in TaskIds, e \in BOOLEAN : EnsureCheck(t, e)
    \/ \E t \in TaskIds, e \in BOOLEAN : EnsureUser(t, e)
    \/ \E t \in TaskIds, e \in BOOLEAN : EnsureInsert(t, e)

SpecEnsure ==
    /\ Init /\ [][NextEnsure]_vars
    /\ \A t \in TaskIds :
          /\ WF_vars(\E e \in BOOLEAN : EnsureCheck(t, e))
          /\ WF_vars(\E e \in BOOLEAN : EnsureUser(t, e))
          /\ WF_vars(\E e \in BOOLEAN : EnsureInsert(t, e))

\* Implicit contact creation: messages in both directions and the three
\* reads of the owner that start a creation.
NextImplicit ==
    \/ \E u \in Users, r \in Users, e \in BOOLEAN : RestSendMessage(u, r, "hi", 1, e)
    \/ \E p \in pendingRest : RestSendFailed(p)
    \/ \E p \in pendingRest : RestSendSaved(p)
    \/ \E e \in BOOLEAN : GetConversations(Owner, e)
    \/ \E e \in BOOLEAN : CheckNewMessages(Owner, NoQuery, e)
    \/ /\ NoReadInProgress
       /\ \E c \in Users, e \in BOOLEAN : GetMessagesWith(Owner, c, e)
    \/ \E t \in TaskIds, e \in BOOLEAN : EnsureCheck(t, e)
    \/ \E t \in TaskIds, e \in BOOLEAN : EnsureUser(t, e)
    \/ \E t \in TaskIds, e \in BOOLEAN : EnsureInsert(t, e)
    \/ \E t \in TaskIds, e \in BOOLEAN : GetMessagesQuery(t, e)

SpecImplicit == Init /\ [][NextImplicit]_vars

\* The client alone: the server's answers arrive or not, the connection
\* comes and goes, the timers fire.
NextClient ==
    \/ ContextEffect
    \/ ContextCleanup
    \/ ClientConnect
    \/ ClientAuthenticated
    \/ ClientDisconnect
    \/ \E c \in CallIds : ClientSendMessage(c)
    \/ \E c \in CallIds : ContextSendMessage(c)
    \/ \E c \in CallIds, success \in BOOLEAN : ClientAck(c, success)
    \/ \E c \in CallIds : ClientTimeout(c)
    \/ \E c \in CallIds : ContextSendReturns(c)

SpecClient == Init /\ [][NextClient]_vars

\* The token the client authenticates with: one the authenticate handler
\* reads a user id from, or the one login returns.
ClientTokens == {ForeignToken("1"), LoginToken("1")}

\* socket.emit('send_message', { receiverId, content, temp_id: tempId }, ...)
SendData(c) == [receiverId |-> "2", content |-> "hi", temp_id |-> TempIdOf(c)]

\* The server has answered a send whose acknowledgment the client has not run yet.
ReplyOnItsWay ==
    /\ out.kind = "send_message"
    /\ ~client.calls[out.request.temp_id].acked

\* The send_message of call c is on its way to the server.
RequestOnItsWay(c) ==
    /\ client.calls[c].pc = "emitted"
    /\ client.calls[c].connected /\ ~client.calls[c].acked
    /\ \A p \in pendingRT : p.data.temp_id # TempIdOf(c)
    /\ ~(out.kind = "send_message" /\ out.request.temp_id = TempIdOf(c))

\* The round trip of a send: one client, its connection, the send_message
\* handler, the acknowledgment and the client's timer.  The connection stays
\* up; every answer of the server reaches the client, sooner or later than
\* the timer.
NextRoundTrip ==
    \/ ContextEffect
    \/ client.transport = "connecting" /\ Connect(Sender)
    \/ status[Sender] = "open" /\ ClientConnect
    \/ /\ client.authSent /\ identity[Sender] = Undefined
       /\ \E token \in ClientTokens : Authenticate(Sender, token)
    \/ identity[Sender] # Undefined /\ ClientAuthenticated
    \/ \E c \in CallIds : ContextSendMessage(c)
    \/ \E c \in CallIds, t \in Times :
          /\ RequestOnItsWay(c) /\ ~ReplyOnItsWay
          /\ SendMessage(Sender, SendData(c), TRUE, t)
    \/ ~ReplyOnItsWay /\ \E p \in pendingRT : SendMessageFailed(p)
    \/ ~ReplyOnItsWay /\ \E p \in pendingRT : SendMessageSaved(p)
    \/ \E c \in CallIds :
          /\ out.kind = "send_message" /\ out.request.temp_id = TempIdOf(c)
          /\ ClientAck(c, out.replies[1].success)
    \/ \E c \in CallIds : ClientTimeout(c)
    \/ \E c \in CallIds : ContextSendReturns(c)

SpecRoundTrip == Init /\ [][NextRoundTrip]_vars

\* Payloads that carry a sender_id and a timestamp of the client's choosing.
SpoofedPayloads ==
    [receiverId : Users, content : {"hi"}, temp_id : {"tmp-1"},
     sender_id : {NoUser}, timestamp : {0}]

\* Authenticity: one connection that authenticates and re-authenticates with
\* any token and sends plain and spoofed payloads, and REST sends.
NextAuthentic ==
    \/ Connect(Sender)
    \/ \E token \in Tokens : Authenticate(Sender, token)
    \/ Disconnect(Sender)
    \/ \E data \in WellFormedPayloads \cup SpoofedPayloads, ack \in BOOLEAN :
          SendMessage(Sender, data, ack, 1)
    \/ \E p \in pendingRT : SendMessageFailed(p)
    \/ \E p \in pendingRT : SendMessageSaved(p)
    \/ \E u \in Users, e \in BOOLEAN : RestSendMessage(u, Owner, "hi", 1, e)
    \/ \E p \in pendingRest : RestSendFailed(p)
    \/ \E p \in pendingRest : RestSendSaved(p)

SpecAuthentic == Init /\ [][NextAuthentic]_vars

(***************************************************************************)
(* Connection registry: the contract the registry is read through          *)
(***************************************************************************)
handlesFor(u) == IF Has(userSockets, u) THEN userSockets[u] ELSE {}

isOnline(u) == Has(userSockets, u)

\* The users a connection has authenticated as since it was opened.
AuthenticatedAs(h) == {u \in Users : u = identity[h] \/ RoomName(u) \in rooms[h]}

\* C3: every connection handle is a member of the set of at most one user,
\* also after it has authenticated more than once with tokens of different users.
C3_HandleOfAtMostOneUser ==
    \A h \in Conns : Cardinality({u \in Users : h \in handlesFor(u)}) <= 1

\* C4: when u has no other connection, a connection that authenticated as u
\* and then disconnects leaves no entry for u: handlesFor(u) is empty and
\* isOnline(u) is false.
C4_RegisterUnregisterRoundTrip ==
    [][\A h \in Conns, u \in Users :
          ( /\ status[h] = "open" /\ status'[h] = "closed"
            /\ u \in AuthenticatedAs(h)
            /\ \A h2 \in Conns \ {h} :
                  h2 \notin handlesFor(u) /\ u \notin AuthenticatedAs(h2) )
          => (handlesFor(u)' = {} /\ ~isOnline(u)')]_vars

\* C5: once authenticated has been emitted on a connection for a valid token,
\* the connection is registered under, and bound to, the id of the user the
\* token was issued to.
C5_BoundIdentityIsTokenOwner ==
    out.kind = "authenticated"
        => ( /\ socketUserId[out.conn] = identity[out.conn]
             /\ out.conn \in handlesFor(identity[out.conn]) )

(***************************************************************************)
(* Real-time delivery and the message log                                  *)
(***************************************************************************)
\* The step just taken was a send_message handler (or its db.run callback)
\* answering the sender.
SendAnswered(o) == o.kind = "send_message"

SendSucceeded(o) ==
    SendAnswered(o) /\ \E i \in DOMAIN o.replies : o.replies[i].success

\* A REST send answered 201.
RestSendSucceeded(o) == o.kind = "sendMessage" /\ o.code = 201

LastRow == log[Len(log)]

\* The connections registered for a user: open, and authenticated with a
\* token of that user.
RegisteredConnections(u) == {h \in Conns : status[h] = "open" /\ identity[h] = u}

\* C1: when a real-time send to u2 is persisted while u2 has registered
\* connections, each of them receives exactly one new_message event for the
\* message, carrying the persisted id, content, timestamp and sender_id.
C1_FanOutToEveryRegisteredConnection ==
    SendSucceeded(out) =>
        \A h \in RegisteredConnections(out.request.receiverId) :
            /\ Len(out.events[h]) = 1
            /\ out.events[h][1].id = LastRow.id
            /\ out.events[h][1].content = LastRow.content
            /\ out.events[h][1].timestamp = LastRow.timestamp
            /\ out.events[h][1].sender_id = LastRow.sender_id

\* The id a successful send reports to its sender.
ReportedId(o) == IF SendAnswered(o) THEN o.replies[1].messageData.id ELSE o.body.id

\* C2: every successful send, real-time or REST, appends exactly one row to
\* the log, with an id greater than the id of every row already there, and
\* the log changes in no other step.
C2_OneRowPerSendWithGreaterId ==
    [][ ( \/ log' # log
          \/ ((SendSucceeded(out') \/ RestSendSucceeded(out')) /\ out' # out) )
        => ( /\ SendSucceeded(out') \/ RestSendSucceeded(out')
             /\ Len(log') = Len(log) + 1
             /\ SubSeq(log', 1, Len(log)) = log
             /\ \A i \in DOMAIN log : log'[Len(log')].id > log[i].id
             /\ ReportedId(out') = log'[Len(log')].id ) ]_vars

C2_Witness ==
    /\ Len(log) = 2
    /\ RestSendSucceeded(out) /\ out.body.id = log[2].id
    /\ log[1].receiver_id = NoUser

\* A send_message request that must be rejected: the connection has not
\* authenticated, or the payload lacks receiverId, or its content is missing
\* or empty.
MustReject(h, data) ==
    \/ identity[h] = Undefined
    \/ Field(data, "receiverId") = Undefined
    \/ Field(data, "content") \in {Undefined, ""}

\* The step answered the sender with one error result carrying the request's temp_id.
AnsweredError(o) ==
    /\ Len(o.replies) = 1
    /\ ~o.replies[1].success
    /\ o.replies[1].temp_id = Field(o.request, "temp_id")

\* C6: a send_message on an unauthenticated connection, or without
\* receiverId, or with missing or empty content, is answered with an error
\* result carrying the request's temp_id; no row is persisted and no
\* new_message event is emitted.
C6_InvalidSendRejected ==
    [][ (SendAnswered(out') /\ out' # out /\ MustReject(out'.conn, out'.request))
        => ( /\ AnsweredError(out')
             /\ log' = log
             /\ pendingRT' = pendingRT
             /\ \A h \in Conns : out'.events[h] = <<>> ) ]_vars

C6_Witness ==
    /\ SendAnswered(out)
    /\ identity[out.conn] # Undefined
    /\ RoomName("1") \in rooms[out.conn]
    /\ out.request # NullData
    /\ out.request.receiverId = "1" /\ out.request.content = ""
    /\ out.request.temp_id = "tmp-1"
    /\ AnsweredError(out)

\* C7: a send_message whose receiverId names no user of the identity store
\* is answered with an error result carrying the request's temp_id, and no
\* row is persisted for it.
C7_UnknownReceiverRejected ==
    /\ (SendAnswered(out) /\ ~UserExists(Field(out.request, "receiverId")))
          => AnsweredError(out)
    /\ \A i \in DOMAIN log : UserExists(log[i].receiver_id)

\* C8: a send to a receiver with no live connection is persisted and
\* answered with the row's id and timestamp, the row stays in the log, and
\* every list GET /messages/{senderId} returns to the receiver afterwards
\* holds the message.
C8_OfflineSendPersistedAndRead ==
    /\ \A id \in offline : \E i \in DOMAIN log : log[i].id = id
    /\ (SendSucceeded(out) /\ LastRow.id \in offline)
          => ( /\ out.replies[1].messageData.id = LastRow.id
               /\ out.replies[1].messageData.timestamp = LastRow.timestamp
               /\ out.replies[1].messageData.content = out.request.content )
    /\ (out.kind = "getMessagesWith" /\ out.code = 200)
          => \A i \in DOMAIN log :
                ( /\ log[i].id \in offline
                  /\ log[i].receiver_id = out.user
                  /\ log[i].sender_id = out.request.contactId )
                => \E j \in DOMAIN out.body :
                      /\ out.body[j].id = log[i].id
                      /\ out.body[j].content = log[i].content
                      /\ out.body[j].timestamp = log[i].timestamp

C8_Witness ==
    /\ out.kind = "getMessagesWith" /\ out.code = 200
    /\ out.user # out.request.contactId
    /\ \E i \in DOMAIN log :
          /\ log[i].id \in offline
          /\ log[i].receiver_id = out.user
          /\ log[i].sender_id = out.request.contactId
          /\ \E j \in DOMAIN out.body : out.body[j].id = log[i].id

(***************************************************************************)
(* Conversation list and contact directory                                 *)
(***************************************************************************)
\* The messages exchanged between two users, in either direction.
Exchanged(u, peer) ==
    {m \in Rows(log) : \/ (m.sender_id = u /\ m.receiver_id = peer)
                       \/ (m.sender_id = peer /\ m.receiver_id = u)}

\* C9: getConversations(u) returns at most one entry per peer, and each
\* entry's id, last_message and timestamp are those of the message with the
\* greatest id among the messages exchanged between u and the peer, in
\* either direction, with isOutgoing true exactly when u sent that message.
C9_OneEntryPerPeerWithLatestMessage ==
    (out.kind = "getConversations" /\ out.code = 200) =>
        /\ \A i, j \in DOMAIN out.body :
              out.body[i].contact_id = out.body[j].contact_id => i = j
        /\ \A i \in DOMAIN out.body :
              LET entry == out.body[i]
                  between == Exchanged(out.user, entry.contact_id)
              IN /\ between # {}
                 /\ \E top \in between :
                       /\ \A m \in between : m.id <= top.id
                       /\ entry.id = top.id
                       /\ entry.last_message = top.content
                       /\ entry.timestamp = top.timestamp
                       /\ entry.isOutgoing = (top.sender_id = out.user)

\* A list of one peer, whose entry is an incoming
\* message saved later but stamped earlier than the outgoing one before it.
C9_Witness ==
    /\ out.kind = "getConversations" /\ out.code = 200
    /\ Len(out.body) = 1
    /\ Len(log) = 2
    /\ log[1].sender_id = out.user /\ log[1].receiver_id # out.user
    /\ log[2].sender_id # out.user /\ log[2].receiver_id = out.user
    /\ log[1].timestamp > log[2].timestamp
    /\ log[1].content # log[2].content
    /\ out.body[1].id = log[2].id
    /\ ~out.body[1].isOutgoing

\* The step is the callback of createContactIfNotExists's first db.get for task t.
ChecksContact(t) == tasks[t] # Idle /\ tasks[t].pc = "check" /\ tasks'[t] # tasks[t]

\* createContactIfNotExists called back with a contact.
Ensured(o) == o.kind = "createContactIfNotExists" /\ o.err = Undefined

\* createContactIfNotExists called back with the store's own failure.
StoreFailed(o) == o.kind = "createContactIfNotExists" /\ o.err = "store error"

\* C10: createContactIfNotExists is idempotent. A call for (owner, peer)
\* made when the pair has a row returns (unless the store fails) that row's
\* id and nickname and leaves the directory as it is; after every call that returns a contact the
\* pair has exactly one row, the one returned; no pair ever has two rows.
C10_EnsureContactIdempotent ==
    [][ /\ \A t \in TaskIds :
              ( /\ ChecksContact(t)
                /\ ContactRows(tasks[t].userId, tasks[t].contactId) # {}
                /\ ~StoreFailed(out') )
              => ( /\ Ensured(out')
                   /\ \E c \in ContactRows(tasks[t].userId, tasks[t].contactId) :
                         out'.contact.id = c.id /\ out'.contact.nickname = c.nickname
                   /\ contacts' = contacts )
        /\ Ensured(out') =>
              \E c \in contacts' :
                 /\ c.user_id = out'.userId /\ c.contact_id = out'.contactId
                 /\ c.id = out'.contact.id /\ c.nickname = out'.contact.nickname
        /\ \A c, d \in contacts' :
              (c.user_id = d.user_id /\ c.contact_id = d.contact_id) => c = d ]_vars

\* A second call that finds the row the first one created, renamed since.
C10_Witness ==
    /\ Ensured(out)
    /\ out.contact.nickname = "Bob"
    /\ \E c \in contacts : c.id = out.contact.id /\ c.nickname = "Bob"
                             /\ c.contact_id = out.contactId

\* C11: two concurrent createContactIfNotExists calls for the same pair with
\* no row leave exactly one row and both return equivalent contact data: a
\* call that loses the insert race re-reads the row instead of reporting the
\* uniqueness violation. So whenever a call answers while the pair has a row
\* (and the store itself has not failed), it answers with that row.
C11_ConcurrentEnsureBothReturnTheRow ==
    /\ \A c, d \in contacts :
          (c.user_id = d.user_id /\ c.contact_id = d.contact_id) => c = d
    /\ ( /\ out.kind = "createContactIfNotExists"
         /\ ~StoreFailed(out)
         /\ ContactRows(out.userId, out.contactId) # {} )
       => ( /\ Ensured(out)
            /\ \E c \in ContactRows(out.userId, out.contactId) :
                  out.contact.id = c.id /\ out.contact.nickname = c.nickname )

\* C12: under any interleaving of addContact, the automatic creation by
\* getConversations, getMessagesWith and checkNewMessages, and deleteContact,
\* the contact directory holds at most one row per (owner, peer) pair.
C12_OneRowPerOwnerPeerPair ==
    \A c, d \in contacts :
        (c.user_id = d.user_id /\ c.contact_id = d.contact_id) => c = d

\* An automatic creation lost the insert race to an explicit addContact.
C12_Witness ==
    /\ out.kind = "createContactIfNotExists"
    /\ out.err = "UNIQUE constraint failed"
    /\ \E c \in ContactRows(out.userId, out.contactId) : c.nickname = "Bob"

\* The step is an accepted updateContact of the owner for the row.
UpdatesNickname(o, c) ==
    /\ o.kind = "updateContact" /\ o.code = 200
    /\ o.user = c.user_id /\ o.request.id = c.id

\* C13: the nickname stored for an (owner, peer) pair changes only through
\* the owner's updateContact: no step of getConversations, getMessagesWith or
\* checkNewMessages (or of anything else) changes the nickname of a row that
\* exists, whether the user chose it or not.
C13_NicknameChangesOnlyByUpdate ==
    [][ \A c \in contacts, d \in contacts' :
           ( /\ c.user_id = d.user_id /\ c.contact_id = d.contact_id
             /\ c.nickname # d.nickname )
           => UpdatesNickname(out', c) ]_vars

\* checkNewMessages ran the automatic creation for a pair whose row carries a
\* nickname the user chose, and got the row back as it was.
C13_Witness ==
    /\ Ensured(out)
    /\ out.caller = "checkNewMessages"
    /\ out.contact.nickname = "Bob"
    /\ \E c \in ContactRows(out.userId, out.contactId) : c.nickname = "Bob"

\* C14: a contact created by createContactIfNotExists gets the peer's phone
\* number as nickname, or the peer's username when the peer has no phone number.
C14_DefaultNicknameFallsBackToUsername ==
    [][ \A d \in contacts' \ contacts :
           out'.kind = "createContactIfNotExists"
           => d.nickname = IF PhoneNumber[d.contact_id] # Undefined
                           THEN PhoneNumber[d.contact_id]
                           ELSE Username[d.contact_id] ]_vars

\* The step is a callback of createContactIfNotExists for task t that reports a failure.
EnsureFails(t) ==
    /\ tasks[t] # Idle /\ tasks[t].pc \in {"check", "user", "insert"}
    /\ tasks'[t] # tasks[t]
    /\ out'.kind = "createContactIfNotExists" /\ out'.err # Undefined

\* C15: a failure of the automatic contact creation never fails the operation
\* that started it. getMessagesWith goes on to its query after a failed
\* creation and answers with all the messages between the two users (unless
\* the query itself fails); a failed creation started by getConversations or
\* checkNewMessages, which have answered already, touches neither the log
\* nor the directory.
C15_CreationFailureSwallowed ==
    [][ \A t \in TaskIds :
          /\ EnsureFails(t) =>
                /\ log' = log /\ contacts' = contacts
                /\ IF tasks[t].caller = "getMessagesWith"
                   THEN tasks'[t] = [pc |-> "messages", userId |-> tasks[t].userId,
                                     contactId |-> tasks[t].contactId]
                   ELSE tasks'[t] = Idle
          /\ (tasks[t] # Idle /\ tasks[t].pc = "messages" /\ tasks'[t] # tasks[t]) =>
                /\ out'.kind = "getMessagesWith"
                /\ out'.user = tasks[t].userId
                /\ out'.code \in {200, 500}
                /\ out'.code = 200 =>
                      {out'.body[i] : i \in DOMAIN out'.body}
                         = {FormatMessage(tasks[t].userId, m) :
                               m \in Exchanged(tasks[t].userId, tasks[t].contactId)} ]_vars

\* getMessagesWith answered with the message of the peer although no contact
\* was ever created.
C15_Witness ==
    /\ out.kind = "getMessagesWith" /\ out.code = 200
    /\ Len(out.body) = 1
    /\ contactSeq = 0

\* C16: POST /messages with empty or missing content is answered 400, and
\* POST /messages to a receiver the users table does not have is answered
\* 404 (400 when it has no receiverId or only blanks as content, 500 when
\* the lookup itself fails); in both cases nothing is queued
\* for the log, and the log and the contact directory stay as they are.
C16_RestSendRejected ==
    [][ (out'.kind = "sendMessage"
           /\ ( \/ out'.request.content \in {Undefined, ""}
                \/ ~UserExists(out'.request.receiverId) ))
        => ( /\ IF out'.request.content \in {Undefined, ""}
                THEN out'.code = 400
                ELSE IF out'.request.receiverId = Undefined \/ out'.request.content = " "
                THEN out'.code = 400
                ELSE out'.code \in {404, 500}
             /\ log' = log
             /\ pendingRest' = pendingRest
             /\ contacts' = contacts /\ contactSeq' = contactSeq ) ]_vars

\* An empty message refused after an earlier one was saved.
C16_Witness ==
    /\ out.kind = "sendMessage" /\ out.code = 400
    /\ out.request.content = "" /\ out.request.receiverId \in Users
    /\ Len(log) = 1

\* An unknown receiver refused.
C16_WitnessUnknownReceiver ==
    /\ out.kind = "sendMessage" /\ out.code = 404
    /\ out.request.content = "hi" /\ out.request.receiverId = NoUser

\* The inbound messages of u with an id above the lastMessageId of the query, if it has one.
InboundSince(u, query) ==
    {m \in Rows(log) :
        /\ m.receiver_id = u
        /\ ("lastMessageId" \in DOMAIN query => m.id > query.lastMessageId)}

\* C17: GET /messages/check-new?lastMessageId=n for u returns exactly the
\* messages of the log whose receiver is u and whose id is greater than n
\* (all inbound messages when n is absent), each once and with its own
\* content, timestamp and sender, never a message u sent to someone else,
\* in ascending order of timestamp.
C17_CheckNewReturnsInboundSince ==
    (out.kind = "checkNewMessages" /\ out.code = 200) =>
        /\ {out.body[i].id : i \in DOMAIN out.body}
              = {m.id : m \in InboundSince(out.user, out.request)}
        /\ Len(out.body) = Cardinality(InboundSince(out.user, out.request))
        /\ \A i \in DOMAIN out.body :
              \E m \in InboundSince(out.user, out.request) :
                 /\ out.body[i].id = m.id /\ out.body[i].content = m.content
                 /\ out.body[i].timestamp = m.timestamp
                 /\ out.body[i].sender_id = m.sender_id
        /\ \A i, j \in DOMAIN out.body :
              i < j => out.body[i].timestamp <= out.body[j].timestamp

\* A poll after id 1 that leaves out the first inbound message and returns the second.
C17_Witness ==
    /\ out.kind = "checkNewMessages" /\ out.code = 200
    /\ out.request # NoQuery /\ out.request.lastMessageId = 1
    /\ Len(log) = 2
    /\ log[1].receiver_id = out.user /\ log[2].receiver_id = out.user
    /\ Len(out.body) = 1 /\ out.body[1].id = 2

\* C18: the list GET /messages/{peerId} returns is sorted by non-decreasing
\* message id, whatever sends produced the log.
C18_HistorySortedById ==
    (out.kind = "getMessagesWith" /\ out.code = 200) =>
        \A i, j \in DOMAIN out.body : i < j => out.body[i].id <= out.body[j].id

(***************************************************************************)
(* Client bounded wait                                                     *)
(***************************************************************************)
\* C19: every sendMessage call made with a tempId resolves within the bounded
\* wait: once its 10 second timer has fired (or the call has returned at
\* once), its Promise is resolved, with the message data after a success
\* acknowledgment and with false otherwise, also when the socket
\* disconnected while the send was in flight.
C19_SendResolvesWithinTimeout ==
    \A c \in CallIds :
        LET call == client.calls[c] IN
        (call.pc = "returned" \/ call.timer = "fired") => call.result # "pending"

(***************************************************************************)
(* Failed authentication                                                   *)
(***************************************************************************)
\* C20: a step that answers auth_error on a connection leaves the connection
\* open and leaves the registry, the rooms, the connection's socket.userId
\* and its bound identity as they were; and in the state after such a
\* failure, an authenticate with any token that verifies can be taken on the
\* same connection and is answered authenticated.
C20_FailedAuthenticationIsHarmless ==
    [][ \A h \in Conns :
           /\ out' = AuthEvent(h, "auth_error") =>
                  /\ status'[h] = "open"
                  /\ UNCHANGED <<status, userSockets, socketUserId, rooms, identity>>
           /\ out = AuthEvent(h, "auth_error") =>
                  \A token \in Tokens :
                      jwtVerifies(token, JWT_SECRET) =>
                          /\ ENABLED Authenticate(h, token)
                          /\ Authenticate(h, token) => out' = AuthEvent(h, "authenticated")
      ]_vars

\* A connection that never authenticated has just been refused: it is open
\* and unauthenticated, and the registry is empty.
C20_Witness ==
    /\ out = AuthEvent("s1", "auth_error")
    /\ status["s1"] = "open"
    /\ ~Truthy(socketUserId["s1"])
    /\ identity["s1"] = Undefined
    /\ rooms["s1"] = {}
    /\ \A u \in Keys : ~Has(userSockets, u)

(***************************************************************************)
(* Registry hygiene                                                        *)
(***************************************************************************)
\* C21: in every reachable state the registry holds only live connections
\* and no empty sets: every member of every set of userSockets is an open
\* connection, and no key maps to the empty set, whatever connects,
\* authentications (repeated or failing) and disconnects came before.
C21_RegistryHoldsOnlyLiveConnections ==
    \A k \in DOMAIN userSockets :
        /\ userSockets[k] # {}
        /\ \A h \in userSockets[k] : status[h] = "open"

(***************************************************************************)
(* Fire-and-forget contact creation                                        *)
(***************************************************************************)
\* The step is a callback of createContactIfNotExists for task t that ends the call.
EnsureEnds(t) ==
    /\ tasks[t] # Idle /\ tasks[t].pc \in {"check", "user", "insert"}
    /\ tasks'[t] # tasks[t]
    /\ out'.kind = "createContactIfNotExists"

\* C22: the contact creation getConversations and checkNewMessages start and
\* do not wait for completes.  When getConversations(u) answers, every peer
\* whose latest message with u is inbound has a contact row of u or a
\* creation started for it, and when checkNewMessages(u) answers, a creation
\* is started for every sender among the returned messages; every creation
\* started runs to its end; and a creation that ends without a failure of the
\* store leaves a row for its (owner, peer) pair.
C22_StartedCreationsComplete ==
    /\ [][ /\ (out'.kind = "getConversations" /\ out'.code = 200) =>
                \A i \in DOMAIN out'.body :
                    ~out'.body[i].isOutgoing =>
                        \/ ContactRows(out'.user, out'.body[i].contact_id) # {}
                        \/ \E t \in TaskIds :
                              tasks'[t] = EnsureTask(out'.user, out'.body[i].contact_id,
                                                     "getConversations")
           /\ (out'.kind = "checkNewMessages" /\ out'.code = 200) =>
                \A i \in DOMAIN out'.body :
                    \E t \in TaskIds :
                        tasks'[t] = EnsureTask(out'.user, out'.body[i].sender_id,
                                               "checkNewMessages")
           /\ \A t \in TaskIds :
                (EnsureEnds(t) /\ ~StoreFailed(out')) =>
                    \E c \in contacts' :
                        c.user_id = tasks[t].userId /\ c.contact_id = tasks[t].contactId
         ]_vars
    /\ \A t \in TaskIds : (tasks[t] # Idle) ~> (tasks[t] = Idle)

\* The creation the conversation list started for the sender of the latest
\* message has ended and left the row, with every callback run.
C22_Witness ==
    /\ Ensured(out) /\ out.caller = "getConversations"
    /\ NoReadInProgress
    /\ Len(log) = 2 /\ log[2].receiver_id = out.userId /\ log[2].sender_id = out.contactId
    /\ out.userId # out.contactId
    /\ ContactRows(out.userId, out.contactId) # {}

\* The log holds a message from peer to owner.
HasInbound(owner, peer) ==
    \E m \in Rows(log) : m.sender_id = peer /\ m.receiver_id = owner

\* C23 as stated: a contact row (owner, peer) is created implicitly only when
\* the log holds a message from peer to owner; no read creates a contact for
\* a peer who never sent the owner a message.
C23_ImplicitContactOnlyAfterInbound ==
    [][ \A d \in contacts' \ contacts :
           out'.kind = "createContactIfNotExists" => HasInbound(d.user_id, d.contact_id)
      ]_vars

\* C23, amended: a creation started by getConversations or checkNewMessages
\* adds a row (owner, peer) only when the log holds a message from peer to
\* owner; a creation started by getMessagesWith adds the row of the peer
\* whose history the owner asked for, who is a user, whether or not the two
\* ever exchanged a message.
C23_ImplicitContactByReader ==
    [][ \A d \in contacts' \ contacts :
           out'.kind = "createContactIfNotExists" =>
              /\ UserExists(d.contact_id)
              /\ d.user_id = out'.userId /\ d.contact_id = out'.contactId
              /\ out'.caller \in {"getConversations", "checkNewMessages", "getMessagesWith"}
              /\ out'.caller # "getMessagesWith" => HasInbound(d.user_id, d.contact_id)
      ]_vars

\* The history read of a peer who never wrote to the owner has created the
\* peer's contact row.
C23_Witness ==
    /\ Ensured(out) /\ out.caller = "getMessagesWith"
    /\ ~HasInbound(out.userId, out.contactId)
    /\ out.userId # out.contactId
    /\ ContactRows(out.userId, out.contactId) # {}

\* The conversation list has created the row of the peer whose message is
\* the latest.
C23_WitnessAggregator ==
    /\ Ensured(out) /\ out.caller = "getConversations"
    /\ HasInbound(out.userId, out.contactId)
    /\ \E c \in ContactRows(out.userId, out.contactId) : c.id = contactSeq

(***************************************************************************)
(* Correlation of a send with its answer                                   *)
(***************************************************************************)
\* C24: the temp_id of a send is seen by the sending connection only.  A
\* saved send is answered once, to the connection that issued it, with the
\* request's temp_id; every other connection, those of the sender included,
\* receives at most the new_message event of the receiver's room, and no
\* new_message event carries a temp_id.
C24_TempIdOnlyToSendingConnection ==
    SendSucceeded(out) =>
        /\ Len(out.replies) = 1
        /\ out.replies[1].messageData.temp_id = out.request.temp_id
        /\ \A h \in Conns :
              /\ \A i \in DOMAIN out.events[h] : out.events[h][i].temp_id = Undefined
              /\ h \notin RoomMembers(out.request.receiverId) => out.events[h] = <<>>

\* A user with two connections writes to themself from the first: the second
\* receives the message without the temp_id.
C24_Witness ==
    /\ SendSucceeded(out)
    /\ out.conn = "s1" /\ out.request.temp_id = "tmp-1"
    /\ status["s2"] = "open" /\ socketUserId["s2"] = socketUserId["s1"]
    /\ out.request.receiverId = socketUserId["s1"]
    /\ Len(out.events["s2"]) = 1
    /\ out.events["s2"][1].temp_id = Undefined
    /\ out.replies[1].messageData.temp_id = "tmp-1"

(***************************************************************************)
(* Client reconnection and reconciliation                                  *)
(***************************************************************************)
\* C29: after socketService.disconnect() followed by socketService.connect()
\* (the cleanup and the re-run of the socket effect), once the transport has
\* connected the service knows it: isConnected is true, the subscribers of
\* connect have been notified and authenticate has been sent, so that
\* isSocketAuthenticated() can become true again.
C29_ReconnectRestoresService ==
    (client.initialized /\ client.transport = "open")
        => (client.isConnected /\ client.authSent)

\* C30: once MessagesContext.sendMessage has returned for a send that was
\* acknowledged as success, the message list holds no temporary entry for its
\* temp id but one confirmed entry in its place; once it has returned after
\* an error acknowledgment or the timeout, the temporary entry is marked
\* sendFailed.
C30_OptimisticEntryReconciled ==
    \A c \in CallIds :
        LET call == client.calls[c]
            entries == {i \in DOMAIN client.messages : client.messages[i].id = TempIdOf(c)
                                                        /\ client.messages[i].isTemp}
        IN (call.ctx = "done" /\ call.pc = "emitted") =>
              IF call.result = "messageData"
              THEN entries = {}
              ELSE \A i \in entries : client.messages[i].sendFailed

(***************************************************************************)
(* Late acknowledgment                                                     *)
(***************************************************************************)
\* The step runs the acknowledgment callback of call c after its timer fired.
LateAck(c) ==
    /\ client.calls[c].timer = "fired"
    /\ ~client.calls[c].acked /\ client'.calls[c].acked

\* C25: an acknowledgment that arrives after the 10 second timeout is
\* ignored: the call has answered false and keeps that answer, the tempId is
\* not in pendingMessages afterwards, and the log keeps its rows; neither the
\* timer nor the late acknowledgment takes a row or a queued INSERT away.
C25_LateAckIgnored ==
    [][ /\ \A c \in CallIds :
              /\ LateAck(c) =>
                    /\ client.calls[c].result = "false"
                    /\ client'.calls[c].result = "false"
                    /\ TempIdOf(c) \notin client'.pendingMessages
                    /\ log' = log /\ pendingRT' = pendingRT
              /\ (client.calls[c].timer = "armed" /\ client'.calls[c].timer = "fired") =>
                    log' = log /\ pendingRT' = pendingRT
        /\ Len(log') >= Len(log) /\ SubSeq(log', 1, Len(log)) = log
      ]_vars

\* The success acknowledgment of a saved message has come after the timer:
\* the call has answered false and the row is in the log.
C25_Witness ==
    /\ SendSucceeded(out) /\ out.request.temp_id = TempIdOf(1)
    /\ client.calls[1].timer = "fired" /\ client.calls[1].acked
    /\ client.calls[1].result = "false"
    /\ TempIdOf(1) \notin client.pendingMessages
    /\ \E i \in DOMAIN log : log[i].id = out.replies[1].messageData.id

(***************************************************************************)
(* Confidentiality and authenticity                                        *)
(***************************************************************************)
\* C26: a connection receives a new_message event only for a message whose
\* receiver_id is the identity the connection is bound to at that moment: a
\* connection that re-authenticated as another user receives nothing more
\* for the first, and a closed connection receives nothing.
C26_FanOutOnlyToBoundIdentity ==
    SendSucceeded(out) =>
        \A h \in Conns :
            out.events[h] # <<>> =>
                /\ status[h] = "open"
                /\ identity[h] = out.request.receiverId
                /\ socketUserId[h] = out.request.receiverId

\* C27: the sender_id of a row saved through the real-time path is the
\* identity the sending connection was bound to when it sent, and its
\* timestamp is the server's; the sender_id of a row saved through REST is
\* the id of the authenticated requester; a sender_id or timestamp in the
\* client's payload changes neither.
C27_SenderIsBoundIdentity ==
    [][ /\ \A p \in pendingRT' \ pendingRT :
              /\ p.senderId = identity[p.conn]
              /\ p.senderId = socketUserId[p.conn]
              /\ p.timestamp \in Times
        /\ (SendSucceeded(out') /\ Len(log') = Len(log) + 1) =>
              \E p \in pendingRT \ pendingRT' :
                 /\ log'[Len(log')].sender_id = p.senderId
                 /\ log'[Len(log')].timestamp = p.timestamp
                 /\ out'.request = p.data
        /\ (RestSendSucceeded(out') /\ Len(log') = Len(log) + 1) =>
              /\ log'[Len(log')].sender_id = out'.user
              /\ \E p \in pendingRest \ pendingRest' :
                    /\ p.senderId = out'.user
                    /\ log'[Len(log')].timestamp = p.timestamp
        /\ Len(log') # Len(log) => (SendSucceeded(out') \/ RestSendSucceeded(out'))
      ]_vars

\* A payload that names another sender and time was saved under the identity
\* of its connection and the time of the server.
C27_Witness ==
    /\ SendSucceeded(out)
    /\ Field(out.request, "sender_id") = NoUser
    /\ LastRow.sender_id = "1" /\ out.userId = "1"
    /\ LastRow.timestamp \in Times
    /\ out.request.timestamp \notin Times

(***************************************************************************)
(* One answer per send                                                     *)
(***************************************************************************)
\* The one answer of a step to a request made with or without a callback.
OneAnswer(o, ack) ==
    /\ o.kind = "send_message" /\ o.ack = ack
    /\ Len(o.replies) = 1
    /\ o.replies[1].via = IF ack THEN "ack"
                          ELSE IF o.replies[1].success THEN "message_sent"
                          ELSE "message_error"

\* C28: the server answers every send_message exactly once.  A handler run
\* that refuses the request answers it once with an error and queues
\* nothing; one that queues the INSERT answers nothing yet; the callback of
\* the INSERT answers its own request once, with success or with error; the
\* answer goes through the callback when there is one and through
\* message_sent or message_error otherwise; no other step answers a send.
C28_ExactlyOneResponse ==
    [][ /\ (out'.kind = "send_message" /\ pendingRT' = pendingRT) =>
              (OneAnswer(out', out'.ack) /\ ~out'.replies[1].success /\ log' = log)
        /\ \A p \in pendingRT' \ pendingRT :
              out' = Silent /\ pendingRT' = pendingRT \cup {p}
        /\ \A p \in pendingRT \ pendingRT' :
              /\ pendingRT' = pendingRT \ {p}
              /\ OneAnswer(out', p.ack)
              /\ out'.conn = p.conn /\ out'.request = p.data
              /\ out'.replies[1].success = (Len(log') = Len(log) + 1)
        /\ out'.kind = "send_message" =>
              \A i \in DOMAIN out'.replies : out'.replies[i].via = "ack" => out'.ack
      ]_vars

\* A saved send answered once through its callback.
C28_Witness ==
    /\ SendSucceeded(out) /\ out.ack
    /\ Len(out.replies) = 1 /\ out.replies[1].via = "ack"
    /\ Len(log) = 1

\* A refused send without callback answered once through message_error.
C28_WitnessNoCallback ==
    /\ SendAnswered(out) /\ ~out.ack
    /\ Len(out.replies) = 1 /\ out.replies[1].via = "message_error"

=============================================================================
